---- MODULE Spec2Model ----
(***************************************************************************)
(* rustic_db: buffer pool, lock manager (WAIT-DIE), heap file, heap page,  *)
(* tuples and catalog.  Every transaction runs in its own thread; the      *)
(* state is the lock table, the page cache, the heap files, the catalog    *)
(* and each thread's position.                                             *)
(***************************************************************************)
EXTENDS Integers, Sequences, FiniteSets, TLC

\* ------------------------------------------------------------------ bounds
\* Number of TransactionId values that can be allocated.
MaxTid == 3
\* Number of operations (insert_tuple, page iteration) one transaction runs
\* before it has to commit or abort.
MaxOps == 2
\* Largest value of the Int field of the tuples given to the functions of
\* HeapPage and Tuple.
MaxField == 1
\* Largest page number given to HeapFile::read_page and HeapFile::write_page
\* on their own, and the page number at which the scan of a table whose pages
\* have no slots is cut off.
MaxPageNo == 3
\* Number of threads that call Catalog::add_table, and number of heap files
\* they create.
MaxWriters == 2
MaxFiles == 3

\* ------------------------------------------------------- program constants
\* buffer_pool.rs PAGE_SIZE, scaled down so that a page has two slots.
PAGE_SIZE == 10
\* types.rs STRING_SIZE, scaled down.
STRING_SIZE == 2
\* The bytes of an i32 (IntField) and of the u32 length of a StringField (4 in
\* the program), scaled down to one byte.
INT_BYTES == 1

\* Option: None and Some(x)
None == << >>
Some(x) == << x >>

Tids == 0 .. (MaxTid - 1)
\* Table ids registered in the catalog (HeapFile::get_id of each table).
catalog == {1, 2}

\* HeapPageId::new
HeapPageId(table_id, page_number) ==
    [table_id |-> table_id, page_number |-> page_number]

\* RecordId::new
RecordId(pid, tuple_no) == [pid |-> pid, tuple_no |-> tuple_no]

\* Tuple::new: the record id of a new tuple is (page (0, 0), slot 0).
Tuple(fields) == [fields |-> fields, rid |-> RecordId(HeapPageId(0, 0), 0)]

\* vec![0; n]
zeros(n) == [i \in 1 .. n |-> 0]

\* 256^n
Pow256(n) == IF n = 0 THEN 1 ELSE IF n = 1 THEN 256 ELSE 65536

RECURSIVE to_be_bytes(_, _)
\* u32::to_be_bytes / i32::to_be_bytes (two's complement), n bytes wide
to_be_bytes(v, n) ==
    IF n = 0 THEN << >>
    ELSE << ((v + Pow256(n)) % Pow256(n)) \div Pow256(n - 1) >>
         \o to_be_bytes(((v + Pow256(n)) % Pow256(n)) % Pow256(n - 1), n - 1)

RECURSIVE u_from_be_bytes(_)
\* u32::from_be_bytes
u_from_be_bytes(bytes) ==
    IF bytes = << >> THEN 0
    ELSE bytes[1] * Pow256(Len(bytes) - 1) + u_from_be_bytes(Tail(bytes))

\* i32::from_be_bytes (two's complement)
i_from_be_bytes(bytes) ==
    LET u == u_from_be_bytes(bytes)
    IN  IF 2 * u >= Pow256(Len(bytes)) THEN u - Pow256(Len(bytes)) ELSE u

\* IntField::new
IntField(value) == [type |-> "IntType", value |-> value]

\* StringField::new: the string (its bytes) and the length the caller gives.
StringField(value, len) == [type |-> "StringType", value |-> value, len |-> len]

\* Type::get_len
get_len(type) == IF type = "IntType" THEN INT_BYTES ELSE STRING_SIZE + INT_BYTES

\* The tuple descriptor of the tables: (Int, String), as in schemas.txt.
td == << "IntType", "StringType" >>

RECURSIVE SumLen(_)
\* the fold of TupleDesc::get_size over a sequence of types
SumLen(types) == IF types = << >> THEN 0 ELSE get_len(Head(types)) + SumLen(Tail(types))

\* TupleDesc::get_size
td_size == SumLen(td)

\* min
Min(a, b) == IF a < b THEN a ELSE b

\* IntField::serialize / StringField::serialize: the length, then the bytes of
\* the string cut at STRING_SIZE and padded with zeros.
field_serialize(f) ==
    IF f.type = "IntType" THEN to_be_bytes(f.value, INT_BYTES)
    ELSE to_be_bytes(f.len, INT_BYTES)
         \o SubSeq(f.value, 1, Min(Len(f.value), STRING_SIZE))
         \o zeros(STRING_SIZE - Min(Len(f.value), STRING_SIZE))

RECURSIVE fields_serialize(_)
\* Tuple::serialize: the loop over the fields
fields_serialize(fields) ==
    IF fields = << >> THEN << >>
    ELSE field_serialize(Head(fields)) \o fields_serialize(Tail(fields))

\* Tuple::serialize: the bytes of the fields, the record id is not written.
serialize(t) == fields_serialize(t.fields)

\* Type::parse does not panic: the slices it takes are inside the bytes.
parse_ok(type, bytes) ==
    /\ Len(bytes) >= INT_BYTES
    /\ type = "StringType" =>
          u_from_be_bytes(SubSeq(bytes, 1, INT_BYTES)) + INT_BYTES <= Len(bytes)

\* Type::parse: the field read from the start of the bytes.
parse(type, bytes) ==
    IF type = "IntType" THEN IntField(i_from_be_bytes(SubSeq(bytes, 1, INT_BYTES)))
    ELSE LET len == u_from_be_bytes(SubSeq(bytes, 1, INT_BYTES))
         IN  StringField(SubSeq(bytes, INT_BYTES + 1, INT_BYTES + len), len)

RECURSIVE deserialize_ok(_, _)
\* Tuple::deserialize runs through: no parse panics.
deserialize_ok(bytes, types) ==
    \/ types = << >>
    \/ /\ parse_ok(Head(types), bytes)
       /\ Len(bytes) >= get_len(Head(types))
       /\ deserialize_ok(SubSeq(bytes, get_len(Head(types)) + 1, Len(bytes)), Tail(types))

RECURSIVE parse_fields(_, _)
\* Tuple::deserialize: the loop over the types of the descriptor.
parse_fields(bytes, types) ==
    IF types = << >> THEN << >>
    ELSE << parse(Head(types), bytes) >>
         \o parse_fields(SubSeq(bytes, get_len(Head(types)) + 1, Len(bytes)), Tail(types))

\* Tuple::deserialize: one field per type of the descriptor, through Tuple::new.
deserialize(bytes) == Tuple(parse_fields(bytes, td))

\* HeapPage::new: num_slots
num_slots == (PAGE_SIZE * 8) \div (td_size * 8 + 1)

\* HeapPage::new: header_size = ceil(num_slots / 8)
header_size == (num_slots + 7) \div 8

\* 1 << bit
Pow2(n) == IF n = 0 THEN 1 ELSE IF n = 1 THEN 2 ELSE IF n = 2 THEN 4
           ELSE IF n = 3 THEN 8 ELSE IF n = 4 THEN 16 ELSE IF n = 5 THEN 32
           ELSE IF n = 6 THEN 64 ELSE 128

\* HeapPage::get_slot (header is 1-indexed here, slot numbers start at 0)
get_slot(header, i) ==
    IF i \div 8 >= Len(header) THEN FALSE
    ELSE (header[(i \div 8) + 1] \div Pow2(i % 8)) % 2 = 1

\* HeapPage::set_slot
set_slot(header, i, value) ==
    LET idx  == (i \div 8) + 1
        byte == header[idx]
        mask == Pow2(i % 8)
        isset == (byte \div mask) % 2 = 1
    IN  IF value
        THEN [header EXCEPT ![idx] = IF isset THEN byte ELSE byte + mask]
        ELSE [header EXCEPT ![idx] = IF isset THEN byte - mask ELSE byte]

\* HeapPage::new: decodes a page from its bytes.  The before-image of the
\* new page is a page of zeros and the page is clean.
HeapPageNew(pid, data) ==
    LET header == SubSeq(data, 1, header_size)
    IN  [pid        |-> pid,
         header     |-> header,
         tuples     |-> [i \in 1 .. num_slots |->
                            IF get_slot(header, i - 1)
                            THEN deserialize(SubSeq(data,
                                     header_size + (i - 1) * td_size + 1,
                                     header_size + i * td_size))
                            ELSE Tuple(<< >>)],
         old_data   |-> zeros(PAGE_SIZE),
         dirtied_by |-> None]

RECURSIVE SlotBytes(_, _)
\* HeapPage::get_page_data: the loop over the slots, from slot i on.
SlotBytes(page, i) ==
    IF i >= num_slots THEN << >>
    ELSE (IF get_slot(page.header, i)
          THEN serialize(page.tuples[i + 1])
          ELSE zeros(td_size)) \o SlotBytes(page, i + 1)

\* HeapPage::get_page_data: header, slots, padding with zeros to PAGE_SIZE.
get_page_data(page) ==
    LET data == page.header \o SlotBytes(page, 0)
    IN  data \o zeros(PAGE_SIZE - Len(data))

\* HeapPage::get_before_image
get_before_image(page) == HeapPageNew(page.pid, page.old_data)

\* HeapPage::set_before_image
set_before_image(page) == [page EXCEPT !.old_data = get_page_data(page)]

\* A mark_dirty that records the transaction whatever the flag is.
mark_dirty_always(page, dirty, tid) == [page EXCEPT !.dirtied_by = Some(tid)]

\* HeapPage::mark_dirty
mark_dirty(page, dirty, tid) ==
    [page EXCEPT !.dirtied_by = IF dirty THEN Some(tid) ELSE None]

\* HeapPage::is_dirty
is_dirty(page) == page.dirtied_by # None

\* A count that finds a free slot on every page.
empty_slots_always_one(page) == 1

\* A count that looks at slot 0 only.
empty_slots_of_slot_zero(page) == IF get_slot(page.header, 0) THEN 0 ELSE 1

\* HeapPage::get_num_empty_slots
get_num_empty_slots(page) ==
    Cardinality({i \in 0 .. (num_slots - 1) : ~get_slot(page.header, i)})

\* The free slot with the highest index, or num_slots when the page is full.
highest_free_slot(page) ==
    IF \E i \in 0 .. (num_slots - 1) : ~get_slot(page.header, i)
    THEN CHOOSE i \in 0 .. (num_slots - 1) :
            /\ ~get_slot(page.header, i)
            /\ \A j \in (i + 1) .. (num_slots - 1) : get_slot(page.header, j)
    ELSE num_slots

\* HeapPage::add_tuple: the first free slot, or num_slots when the page is full.
FirstFreeSlot(page) ==
    IF \E i \in 0 .. (num_slots - 1) : ~get_slot(page.header, i)
    THEN CHOOSE i \in 0 .. (num_slots - 1) :
            /\ ~get_slot(page.header, i)
            /\ \A j \in 0 .. (i - 1) : get_slot(page.header, j)
    ELSE num_slots

\* An add_tuple that stores the tuple and leaves the header as it is.
add_tuple_without_header_bit(page, t) ==
    [page EXCEPT !.tuples[FirstFreeSlot(page) + 1] = t]

\* HeapPage::add_tuple, the Ok case (FirstFreeSlot(page) < num_slots).
add_tuple_page(page, t) ==
    LET i == FirstFreeSlot(page)
    IN  [page EXCEPT !.tuples[i + 1] = t,
                     !.header = set_slot(page.header, i, TRUE)]

\* A check that looks at the slot only, not at the page of the record id.
delete_ok_ignores_page(page, t) == get_slot(page.header, t.rid.tuple_no)

\* HeapPage::delete_tuple returns Ok: the record id of the tuple names this
\* page and a slot whose header bit is set.
delete_tuple_ok(page, t) ==
    /\ t.rid.pid = page.pid
    /\ get_slot(page.header, t.rid.tuple_no)

\* HeapPage::delete_tuple, the Ok case: the slot gets an empty tuple and its
\* header bit is cleared.
delete_tuple_page(page, t) ==
    [page EXCEPT !.tuples[t.rid.tuple_no + 1] = Tuple(<< >>),
                 !.header = set_slot(page.header, t.rid.tuple_no, FALSE)]


\* ------------------------------------------------------------- heap file
\* HeapFile::num_pages: ceil(file length / PAGE_SIZE)
num_pages(f) == (Len(f) + PAGE_SIZE - 1) \div PAGE_SIZE

\* seek to off and write_all(data): bytes between the old end and off are zeros.
write_at(f, off, data) ==
    LET n == IF Len(f) > off + Len(data) THEN Len(f) ELSE off + Len(data)
    IN  [i \in 1 .. n |->
            IF i > off /\ i <= off + Len(data) THEN data[i - off]
            ELSE IF i <= Len(f) THEN f[i] ELSE 0]

\* An extension that appends one page more than page page_no needs.
extend_file_one_more(f, page_no) ==
    IF num_pages(f) <= page_no
    THEN write_at(f, num_pages(f) * PAGE_SIZE,
                  zeros((page_no + 2 - num_pages(f)) * PAGE_SIZE))
    ELSE f

RECURSIVE extend_file(_, _)
\* HeapFile::read_page: the loop that appends pages of zeros up to page_no.
extend_file(f, page_no) ==
    IF num_pages(f) <= page_no
    THEN extend_file(write_at(f, num_pages(f) * PAGE_SIZE, zeros(PAGE_SIZE)), page_no)
    ELSE f

\* HeapFile::read_page: the bytes read after the file was extended.
read_bytes(f, page_no) ==
    SubSeq(extend_file(f, page_no), page_no * PAGE_SIZE + 1, (page_no + 1) * PAGE_SIZE)

\* HeapFile::read_page: the page returned.
read_page(f, pid) == HeapPageNew(pid, read_bytes(f, pid.page_number))

\* HeapFile::write_page: the file after the page was written.
write_page(f, page) ==
    write_at(f, page.pid.page_number * PAGE_SIZE, get_page_data(page))

RECURSIVE page_iter(_, _)
\* HeapPage::iter (HeapPageIterator::next): the tuples of the slots in use,
\* from slot i on.
page_iter(page, i) ==
    IF i >= num_slots THEN << >>
    ELSE (IF get_slot(page.header, i) THEN << page.tuples[i + 1] >> ELSE << >>)
         \o page_iter(page, i + 1)

\* ---------------------------------------------------------- lock manager
\* struct Lock
Lock(tid, pid, exclusive) == [tid |-> tid, pid |-> pid, exclusive |-> exclusive]

\* HashMap::insert
MapPut(m, k, v) == [x \in (DOMAIN m) \cup {k} |-> IF x = k THEN v ELSE m[x]]

\* HashMap::remove
MapRemove(m, k) == [x \in (DOMAIN m) \ {k} |-> m[x]]

\* HashMap::entry(k).or_insert(HashSet::new()), read
MapGetOrEmpty(m, k) == IF k \in DOMAIN m THEN m[k] ELSE {}

\* An early return that is never taken: every request goes on to the latches.
early_return_never(t_to_l, tid, pid, exclusive) == FALSE

\* An early return that is taken with a lock of either mode.
has_lock_of_any_mode(t_to_l, tid, pid, exclusive) ==
    /\ tid \in DOMAIN t_to_l
    /\ \E lock \in t_to_l[tid] : lock.pid = pid

\* LockManager::acquire_lock, the early return: tid already has a lock on pid
\* that is exclusive, or the request is shared.
has_appropriate_lock(t_to_l, tid, pid, exclusive) ==
    /\ tid \in DOMAIN t_to_l
    /\ \E lock \in t_to_l[tid] :
          lock.pid = pid /\ (lock.exclusive = exclusive \/ ~exclusive)

\* The sole-holder test that never succeeds.
sole_holder_never(locks, tid) == FALSE

\* LockManager::acquire_lock: the only lock on the page is one of tid.
sole_holder(locks, tid) ==
    Cardinality(locks) = 1 /\ \A lock \in locks : lock.tid = tid

\* conflict without its first line: an exclusive request sees no conflict
\* with shared holders.
conflict_only_exclusive_holders(locks, exclusive) ==
    \E lock \in locks : lock.exclusive

\* conflict that is never found: every request is granted.
conflict_never(locks, exclusive) == FALSE

\* conflict with any holder, shared requests included.
conflict_any_holder(locks, exclusive) == locks # {}

\* LockManager::acquire_lock: conflict
conflict(locks, exclusive) ==
    (exclusive /\ locks # {}) \/ (\E lock \in locks : lock.exclusive)

\* abort on a lock of any other transaction: no requester ever waits.
abort_any_other(locks, tid) == \E lock \in locks : lock.tid # tid

\* abort with the comparison turned round: the older requester dies.
abort_older_dies(locks, tid) == \E lock \in locks : lock.tid > tid

\* abort that looks at exclusive holders only: two shared holders that both
\* ask for an upgrade wait for each other.
abort_exclusive_holders_only(locks, tid) ==
    \E lock \in locks : lock.tid < tid /\ lock.exclusive

\* abort that is never taken: every conflict waits.
abort_never(locks, tid) == FALSE

\* LockManager::acquire_lock: abort (the requester is younger than a holder)
abort(locks, tid) == \E lock \in locks : lock.tid < tid

\* LockManager::acquire_lock: which way one pass of the function goes.  first
\* is TRUE on entry (the early return is tried) and FALSE on a retry of the loop.
acquire_outcome(p_to_l, t_to_l, tid, pid, exclusive, first) ==
    IF first /\ has_appropriate_lock(t_to_l, tid, pid, exclusive) THEN "held"
    ELSE IF pid \in DOMAIN p_to_l
    THEN IF sole_holder(p_to_l[pid], tid)
         THEN (IF exclusive THEN "upgrade" ELSE "held")
         ELSE IF conflict(p_to_l[pid], exclusive)
              THEN (IF abort(p_to_l[pid], tid) THEN "die" ELSE "wait")
              ELSE "grant"
    ELSE "grant"

\* upgrade_lock that removes the shared lock and inserts nothing.
upgrade_set_drops_lock(locks, tid, pid) == locks \ {Lock(tid, pid, FALSE)}

\* upgrade_lock that inserts the exclusive lock beside the shared one.
upgrade_set_keeps_shared(locks, tid, pid) == locks \cup {Lock(tid, pid, TRUE)}

\* LockManager::upgrade_lock on one index entry
upgrade_set(locks, tid, pid) ==
    (locks \ {Lock(tid, pid, FALSE)}) \cup {Lock(tid, pid, TRUE)}

\* upgrade_lock that changes the transaction index only.
upgrade_leaves_page_index(p_to_l, tid, pid) == p_to_l

\* LockManager::upgrade_lock: the page index afterwards
upgrade_page_to_locks(p_to_l, tid, pid) ==
    [p_to_l EXCEPT ![pid] = upgrade_set(p_to_l[pid], tid, pid)]

\* upgrade_lock that changes the page index only.
upgrade_leaves_transaction_index(t_to_l, tid, pid) == t_to_l

\* LockManager::upgrade_lock: the transaction index afterwards
upgrade_transaction_to_locks(t_to_l, tid, pid) ==
    [t_to_l EXCEPT ![tid] = upgrade_set(t_to_l[tid], tid, pid)]

\* LockManager::acquire_lock: the lock is added to the page index
grant_page_to_locks(p_to_l, tid, pid, exclusive) ==
    MapPut(p_to_l, pid, MapGetOrEmpty(p_to_l, pid) \cup {Lock(tid, pid, exclusive)})

\* A grant that leaves the transaction index as it is.
grant_skips_transaction_index(t_to_l, tid, pid, exclusive) == t_to_l

\* LockManager::acquire_lock: the lock is added to the transaction index
grant_transaction_to_locks(t_to_l, tid, pid, exclusive) ==
    MapPut(t_to_l, tid, MapGetOrEmpty(t_to_l, tid) \cup {Lock(tid, pid, exclusive)})

\* release_locks that removes the whole entry of every page the transaction
\* has a lock on.
release_drops_page_entries(p_to_l, t_to_l, tid) ==
    [pid \in {q \in DOMAIN p_to_l :
                 ~(\E lock \in MapGetOrEmpty(t_to_l, tid) : lock.pid = q)} |-> p_to_l[pid]]

\* release_locks that leaves the page index as it is.
release_keeps_page_index(p_to_l, t_to_l, tid) == p_to_l

\* LockManager::release_locks: the page index afterwards.  Every lock of the
\* transaction index entry is removed from its page entry, and a page entry
\* left empty is removed.
release_page_to_locks(p_to_l, t_to_l, tid) ==
    LET held == MapGetOrEmpty(t_to_l, tid)
        rest(pid) == p_to_l[pid] \ held
    IN  [pid \in {q \in DOMAIN p_to_l :
                    (\E lock \in held : lock.pid = q) => rest(q) # {}} |->
            IF \E lock \in held : lock.pid = pid THEN rest(pid) ELSE p_to_l[pid]]

\* LockManager::release_locks: the transaction index afterwards
release_transaction_to_locks(t_to_l, tid) == MapRemove(t_to_l, tid)

\* LockManager::holds_lock
holds_lock(t_to_l, tid, pid) ==
    IF tid \in DOMAIN t_to_l /\ \E lock \in t_to_l[tid] : lock.pid = pid
    THEN LET lock == CHOOSE lock \in t_to_l[tid] : lock.pid = pid
         IN  Some(IF lock.exclusive THEN "Write" ELSE "Read")
    ELSE None

\* LockManager::get_locked_pages
get_locked_pages(t_to_l, tid) ==
    IF tid \in DOMAIN t_to_l THEN {lock.pid : lock \in t_to_l[tid]} ELSE {}


\* ------------------------------------------------------------------ state
VARIABLES
    COUNTER,               \* TransactionId::new: the static counter
    page_to_locks,         \* LockManager.page_to_locks
    transaction_to_locks,  \* LockManager.transaction_to_locks
    id_to_page,            \* BufferPool.id_to_page
    file,                  \* the bytes of each table's HeapFile
    pc,                    \* where the thread of each transaction is
    frame,                 \* the locals of the call the thread is in
    locked_pages,          \* commit/abort_transaction: locked_pages still to visit
    ops,                   \* operations the transaction has completed
    inserted,              \* history: tuples each transaction put into each table
    first_image,           \* history: each page as it was before the transaction's first write
    slept,                 \* history: the acquire_lock call of the thread has slept
    grown,                 \* history: pages the thread's current call has added to a file
    tables,                \* Catalog.tables: table name -> heap file
    table_ids,             \* Catalog.table_ids: table id -> heap file
    adding,                \* the add_table calls that are running
    call,                  \* the last call of a function on a value, with its result
    latches                \* the RwLock guards each thread holds between two steps

vars == << COUNTER, page_to_locks, transaction_to_locks, id_to_page, file,
           pc, frame, locked_pages, ops, inserted, first_image, slept, grown,
           tables, table_ids, adding, call, latches >>

EmptyMap == [x \in {} |-> {}]

NoFrame == [kind |-> "none", table_id |-> 0, page_no |-> 0, exclusive |-> FALSE]

\* The page the current get_page call of transaction t asks for.
ReqPid(t) == HeapPageId(frame[t].table_id, frame[t].page_no)

\* The tuple transaction t inserts: its Int field holds the transaction id
\* (main.rs builds its tuples from tid.get_tid()), its String field the number
\* of operations t has completed, so that the tuples of t differ.
NewTuple(t) == Tuple(<< IntField(t), StringField(<< ops[t] >>, 1) >>)

\* The Int field of a tuple stored by an earlier run of the program (no
\* transaction of this run has that id).
EarlierTid == MaxTid

\* What a table's data file can hold when load_schema opens it (create, no
\* truncate): nothing, or a page written by an earlier run.
InitialFiles ==
    {<< >>,
     get_page_data(add_tuple_page(HeapPageNew(HeapPageId(0, 0), zeros(PAGE_SIZE)),
                                  Tuple(<< IntField(EarlierTid), StringField(<< 0 >>, 1) >>)))}

\* No function has been called on a value.
NoCall == [op |-> "none"]

\* The names of the tables of the schema file.
employees == "employees"
products == "products"

\* Catalog after load_schema: add_table has put each table of the schema file
\* into both indexes; no add_table call is running.  A heap file is denoted by
\* its id.
LoadedCatalog ==
    /\ tables = (employees :> 1) @@ (products :> 2)
    /\ table_ids = [id \in catalog |-> id]
    /\ adding = EmptyMap

\* The transactions, the lock manager, the buffer pool and the heap files
\* after construction.
InitState ==
    /\ COUNTER = 0
    /\ page_to_locks = EmptyMap
    /\ transaction_to_locks = EmptyMap
    /\ id_to_page = EmptyMap
    /\ file \in [catalog -> InitialFiles]
    /\ pc = [t \in Tids |-> "none"]
    /\ frame = [t \in Tids |-> NoFrame]
    /\ locked_pages = [t \in Tids |-> {}]
    /\ ops = [t \in Tids |-> 0]
    /\ inserted = [t \in Tids |-> [table \in catalog |-> 0]]
    /\ first_image = [t \in Tids |-> EmptyMap]
    /\ slept = [t \in Tids |-> FALSE]
    /\ grown = [t \in Tids |-> 0]
    /\ latches = [t \in Tids |-> {}]

Init == InitState /\ LoadedCatalog /\ call = NoCall

lm_vars == << page_to_locks, transaction_to_locks >>
hist_vars == << inserted, first_image, slept, grown >>
catalog_vars == << tables, table_ids, adding >>

\* A fetch_add that loses the addition.
fetch_add_lost(counter, n) == counter

\* AtomicU64::fetch_add: the value of the counter afterwards (the value
\* before is what the call returns).
fetch_add(counter, n) == counter + n

\* TransactionId::new: fetch_add(1) on COUNTER returns the id; the new
\* transaction's thread starts.
Begin(t) ==
    /\ pc[t] = "none"
    /\ t = COUNTER
    /\ COUNTER' = fetch_add(COUNTER, 1)
    /\ pc' = [pc EXCEPT ![t] = "idle"]
    /\ UNCHANGED << catalog_vars, call, latches, lm_vars, id_to_page, file, frame, locked_pages,
                    ops, hist_vars >>

\* HeapFile::add_tuple is called: page_no = 0, then get_page(tid, pid, Read).
StartInsert(t, table) ==
    /\ pc[t] = "idle"
    /\ ops[t] < MaxOps
    /\ frame' = [frame EXCEPT ![t] = [kind |-> "insert", table_id |-> table,
                                      page_no |-> 0, exclusive |-> FALSE]]
    /\ pc' = [pc EXCEPT ![t] = "lock"]
    /\ grown' = [grown EXCEPT ![t] = 0]
    /\ UNCHANGED << catalog_vars, call, latches, COUNTER, lm_vars, id_to_page, file,
                    locked_pages,
                    ops, inserted, first_image, slept >>

\* HeapFile::iter / iter_mut: a page iterator with current_page_index = 0.
StartIter(t, table, exclusive) ==
    /\ pc[t] = "idle"
    /\ ops[t] < MaxOps
    /\ frame' = [frame EXCEPT ![t] = [kind |-> "iter", table_id |-> table,
                                      page_no |-> 0, exclusive |-> exclusive]]
    /\ pc' = [pc EXCEPT ![t] = "iter"]
    /\ grown' = [grown EXCEPT ![t] = 0]
    /\ UNCHANGED << catalog_vars, call, latches, COUNTER, lm_vars, id_to_page, file,
                    locked_pages,
                    ops, inserted, first_image, slept >>

\* HeapFileIterator::next / HeapFileIteratorMut::next: the test against
\* num_pages(); get_page for the current page, or None.
IterNext(t) ==
    /\ pc[t] = "iter"
    /\ IF frame[t].page_no < num_pages(file[frame[t].table_id])
       THEN /\ pc' = [pc EXCEPT ![t] = "lock"]
            /\ UNCHANGED ops
       ELSE /\ pc' = [pc EXCEPT ![t] = "idle"]
            /\ ops' = [ops EXCEPT ![t] = @ + 1]
    /\ UNCHANGED << catalog_vars, call, latches, COUNTER, lm_vars, id_to_page, file, frame,
                    locked_pages, hist_vars >>

\* LockManager::acquire_lock returns (lock held, upgraded or added): get_page
\* goes on to look the page up in the cache.
AcquireLockReturn(t) ==
    LET first == pc[t] = "lock"
        out == acquire_outcome(page_to_locks, transaction_to_locks, t, ReqPid(t),
                               frame[t].exclusive, first)
    IN  /\ pc[t] \in {"lock", "sleep"}
        /\ out \in {"held", "upgrade", "grant"}
        /\ page_to_locks' =
              IF out = "upgrade" THEN upgrade_page_to_locks(page_to_locks, t, ReqPid(t))
              ELSE IF out = "grant"
              THEN grant_page_to_locks(page_to_locks, t, ReqPid(t), frame[t].exclusive)
              ELSE page_to_locks
        /\ transaction_to_locks' =
              IF out = "upgrade"
              THEN upgrade_transaction_to_locks(transaction_to_locks, t, ReqPid(t))
              ELSE IF out = "grant"
              THEN grant_transaction_to_locks(transaction_to_locks, t, ReqPid(t),
                                              frame[t].exclusive)
              ELSE transaction_to_locks
        /\ pc' = [pc EXCEPT ![t] = "cache"]
        /\ UNCHANGED << catalog_vars, call, latches, COUNTER, id_to_page, file, frame,
                        locked_pages, ops, hist_vars >>

\* LockManager::acquire_lock, conflict and not abort: the latches are dropped,
\* the thread sleeps and the loop starts again.
AcquireLockWait(t) ==
    /\ pc[t] \in {"lock", "sleep"}
    /\ acquire_outcome(page_to_locks, transaction_to_locks, t, ReqPid(t),
                       frame[t].exclusive, pc[t] = "lock") = "wait"
    /\ pc' = [pc EXCEPT ![t] = "sleep"]
    /\ slept' = [slept EXCEPT ![t] = TRUE]
    /\ UNCHANGED << catalog_vars, call, latches, COUNTER, lm_vars, id_to_page, file, frame,
                    locked_pages, ops,
                    inserted, first_image, grown >>

\* LockManager::acquire_lock, conflict and abort: the latches are dropped and
\* BufferPool::abort_transaction(tid) is called; it starts with get_locked_pages.
AcquireLockDie(t) ==
    /\ pc[t] \in {"lock", "sleep"}
    /\ acquire_outcome(page_to_locks, transaction_to_locks, t, ReqPid(t),
                       frame[t].exclusive, pc[t] = "lock") = "die"
    /\ pc' = [pc EXCEPT ![t] = "die"]
    /\ locked_pages' = [locked_pages EXCEPT ![t] = get_locked_pages(transaction_to_locks, t)]
    /\ slept' = [slept EXCEPT ![t] = FALSE]
    /\ UNCHANGED << catalog_vars, call, latches, COUNTER, lm_vars, id_to_page, file, frame, ops,
                    inserted, first_image, grown >>

\* Where get_page returns to.  HeapFile::add_tuple: the page is probed after
\* the Read request and written after the Write request.  HeapFile::delete_tuple
\* goes on to HeapPage::delete_tuple.  The iterators add one to
\* current_page_index and yield the page.
ReturnFromGetPage(t) ==
    /\ pc' = [pc EXCEPT ![t] =
                 IF frame[t].kind = "insert"
                 THEN (IF frame[t].exclusive THEN "write" ELSE "probe")
                 ELSE IF frame[t].kind = "delete" THEN "delete"
                 ELSE "iter"]
    /\ frame' = [frame EXCEPT ![t].page_no =
                    IF frame[t].kind = "iter" THEN @ + 1 ELSE @]

\* BufferPool::get_page: the page is in the cache.
GetPageHit(t) ==
    /\ pc[t] = "cache"
    /\ ReqPid(t) \in DOMAIN id_to_page
    /\ ReturnFromGetPage(t)
    /\ slept' = [slept EXCEPT ![t] = FALSE]
    /\ UNCHANGED << catalog_vars, call, latches, COUNTER, lm_vars, id_to_page, file,
                    locked_pages, ops,
                    inserted, first_image, grown >>

\* BufferPool::get_page: the page is not in the cache.
GetPageMiss(t) ==
    /\ pc[t] = "cache"
    /\ ReqPid(t) \notin DOMAIN id_to_page
    /\ pc' = [pc EXCEPT ![t] = "miss"]
    /\ slept' = [slept EXCEPT ![t] = FALSE]
    /\ UNCHANGED << catalog_vars, call, latches, COUNTER, lm_vars, id_to_page, file, frame,
                    locked_pages, ops,
                    inserted, first_image, grown >>

\* BufferPool::get_page after a miss: the table is looked up in the catalog,
\* HeapFile::read_page extends the file and reads the page, and the page is
\* inserted into id_to_page (replacing an entry inserted meanwhile).
GetPageLoad(t) ==
    /\ pc[t] = "miss"
    /\ frame[t].table_id \in catalog
    /\ file' = [file EXCEPT ![frame[t].table_id] = extend_file(@, frame[t].page_no)]
    /\ id_to_page' = MapPut(id_to_page, ReqPid(t),
                            read_page(file[frame[t].table_id], ReqPid(t)))
    /\ grown' = [grown EXCEPT ![t] =
                    @ + num_pages(extend_file(file[frame[t].table_id], frame[t].page_no))
                      - num_pages(file[frame[t].table_id])]
    /\ ReturnFromGetPage(t)
    /\ UNCHANGED << catalog_vars, call, latches, COUNTER, lm_vars, locked_pages, ops, inserted,
                    first_image, slept >>

\* HeapFile::add_tuple: get_num_empty_slots under the page's read latch; then
\* get_page(tid, pid, Write) for this page, or the next page with Read.
InsertProbe(t) ==
    /\ pc[t] = "probe"
    /\ frame' = [frame EXCEPT ![t] =
                    IF get_num_empty_slots(id_to_page[ReqPid(t)]) > 0
                    THEN [@ EXCEPT !.exclusive = TRUE]
                    ELSE [@ EXCEPT !.page_no = @ + 1]]
    /\ pc' = [pc EXCEPT ![t] = "lock"]
    /\ UNCHANGED << catalog_vars, call, latches, COUNTER, lm_vars, id_to_page, file,
                    locked_pages,
                    ops, hist_vars >>

\* HeapFile::add_tuple: under the page's write latch, HeapPage::add_tuple
\* (unwrap: a full page panics) and mark_dirty(true, tid).
InsertWrite(t) ==
    LET pid == ReqPid(t)
        page == id_to_page[pid]
    IN  /\ pc[t] = "write"
        /\ IF FirstFreeSlot(page) < num_slots
           THEN /\ id_to_page' = [id_to_page EXCEPT ![pid] =
                                     mark_dirty(add_tuple_page(page, NewTuple(t)), TRUE, t)]
                /\ pc' = [pc EXCEPT ![t] = "idle"]
                /\ ops' = [ops EXCEPT ![t] = @ + 1]
                /\ inserted' = [inserted EXCEPT ![t][pid.table_id] = @ + 1]
                /\ first_image' = [first_image EXCEPT ![t] =
                                      IF pid \in DOMAIN @ THEN @ ELSE MapPut(@, pid, page)]
           ELSE /\ pc' = [pc EXCEPT ![t] = "panicked"]
                /\ UNCHANGED << id_to_page, ops, inserted, first_image >>
        /\ UNCHANGED << catalog_vars, call, latches, COUNTER, lm_vars, file, frame,
                        locked_pages,
                        slept, grown >>

\* Tuple::set_record_id
set_record_id(t, rid) == [t EXCEPT !.rid = rid]

\* HeapFile::delete_tuple is called with a tuple the transaction read from slot
\* i of the cached page pid, which it holds a lock on: the tuple as the scan
\* hands it out, or the same tuple after the caller has set its record id to
\* (pid, i).  get_page(tid, tuple.rid.pid, Write) follows.  The frame remembers
\* where the tuple was read (from_pid, from_slot).
StartDelete(t, pid, i, stamped) ==
    /\ pc[t] = "idle"
    /\ ops[t] < MaxOps
    /\ pid \in DOMAIN id_to_page
    /\ holds_lock(transaction_to_locks, t, pid) # None
    /\ get_slot(id_to_page[pid].header, i)
    /\ LET tuple == IF stamped
                    THEN set_record_id(id_to_page[pid].tuples[i + 1], RecordId(pid, i))
                    ELSE id_to_page[pid].tuples[i + 1]
       IN  frame' = [frame EXCEPT ![t] =
                        [kind |-> "delete", table_id |-> tuple.rid.pid.table_id,
                         page_no |-> tuple.rid.pid.page_number, exclusive |-> TRUE,
                         tuple |-> tuple, stamped |-> stamped,
                         from_pid |-> pid, from_slot |-> i]]
    /\ pc' = [pc EXCEPT ![t] = "lock"]
    /\ grown' = [grown EXCEPT ![t] = 0]
    /\ UNCHANGED << catalog_vars, call, latches, COUNTER, lm_vars, id_to_page, file,
                    locked_pages,
                    ops, inserted, first_image, slept >>

\* BufferPool::get_page after a miss, for a table id the catalog does not
\* know: get_table_from_id(..).unwrap() panics.  The lock acquired for the
\* page stays in the lock table.
GetPageNoTable(t) ==
    /\ pc[t] = "miss"
    /\ frame[t].table_id \notin catalog
    /\ pc' = [pc EXCEPT ![t] = "panicked"]
    /\ UNCHANGED << catalog_vars, call, latches, COUNTER, lm_vars, id_to_page, file, frame,
                    locked_pages, ops, hist_vars >>

\* HeapFile::delete_tuple: under the page's write latch, HeapPage::delete_tuple
\* (unwrap: an Err panics) and mark_dirty(true, tid).
DeleteWrite(t) ==
    LET pid == ReqPid(t)
        page == id_to_page[pid]
    IN  /\ pc[t] = "delete"
        /\ IF delete_tuple_ok(page, frame[t].tuple)
           THEN /\ id_to_page' = [id_to_page EXCEPT ![pid] =
                      mark_dirty(delete_tuple_page(page, frame[t].tuple), TRUE, t)]
                /\ pc' = [pc EXCEPT ![t] = "idle"]
                /\ ops' = [ops EXCEPT ![t] = @ + 1]
                /\ first_image' = [first_image EXCEPT ![t] =
                                      IF pid \in DOMAIN @ THEN @ ELSE MapPut(@, pid, page)]
           ELSE /\ pc' = [pc EXCEPT ![t] = "panicked"]
                /\ UNCHANGED << id_to_page, ops, first_image >>
        /\ UNCHANGED << catalog_vars, call, latches, COUNTER, lm_vars, file, frame,
                        locked_pages,
                        inserted, slept, grown >>


\* commit_transaction without mark_dirty(false, tid).
commit_page_stays_dirty(page, tid) == set_before_image(page)

\* commit_transaction without set_before_image().
commit_page_keeps_before_image(page, tid) == mark_dirty(page, FALSE, tid)

\* BufferPool::commit_transaction, one page of the loop: a cached page that is
\* dirty is written to its file, marked clean and its before-image is set.
commit_page(page, tid) == set_before_image(mark_dirty(page, FALSE, tid))

\* BufferPool::abort_transaction, one page of the loop: a cached page that is
\* dirty is replaced by its before-image and marked clean.
abort_page(page, tid) == mark_dirty(get_before_image(page), FALSE, tid)

\* BufferPool::commit_transaction is called: get_locked_pages(tid).
StartCommit(t) ==
    /\ pc[t] = "idle"
    /\ pc' = [pc EXCEPT ![t] = "commit"]
    /\ locked_pages' = [locked_pages EXCEPT ![t] = get_locked_pages(transaction_to_locks, t)]
    /\ UNCHANGED << catalog_vars, call, latches, COUNTER, lm_vars, id_to_page, file, frame, ops,
                    hist_vars >>

\* BufferPool::commit_transaction: the body of the loop for one locked page.
CommitPage(t) ==
    /\ pc[t] = "commit"
    /\ \E pid \in locked_pages[t] :
          /\ locked_pages' = [locked_pages EXCEPT ![t] = @ \ {pid}]
          /\ IF pid \in DOMAIN id_to_page /\ is_dirty(id_to_page[pid])
             THEN /\ file' = [file EXCEPT ![pid.table_id] = write_page(@, id_to_page[pid])]
                  /\ id_to_page' = [id_to_page EXCEPT ![pid] = commit_page(@, t)]
             ELSE UNCHANGED << file, id_to_page >>
    /\ UNCHANGED << catalog_vars, call, latches, COUNTER, lm_vars, pc, frame, ops, hist_vars >>

\* BufferPool::commit_transaction: after the loop, release_locks(tid).
CommitRelease(t) ==
    /\ pc[t] = "commit"
    /\ locked_pages[t] = {}
    /\ page_to_locks' = release_page_to_locks(page_to_locks, transaction_to_locks, t)
    /\ transaction_to_locks' = release_transaction_to_locks(transaction_to_locks, t)
    /\ pc' = [pc EXCEPT ![t] = "committed"]
    /\ UNCHANGED << catalog_vars, call, latches, COUNTER, id_to_page, file, frame, locked_pages,
                    ops, hist_vars >>

\* BufferPool::abort_transaction is called by the owner of the transaction.
StartAbort(t) ==
    /\ pc[t] = "idle"
    /\ pc' = [pc EXCEPT ![t] = "abort"]
    /\ locked_pages' = [locked_pages EXCEPT ![t] = get_locked_pages(transaction_to_locks, t)]
    /\ UNCHANGED << catalog_vars, call, latches, COUNTER, lm_vars, id_to_page, file, frame, ops,
                    hist_vars >>

\* BufferPool::abort_transaction: the body of the loop for one locked page.
AbortPage(t) ==
    /\ pc[t] \in {"abort", "die"}
    /\ \E pid \in locked_pages[t] :
          /\ locked_pages' = [locked_pages EXCEPT ![t] = @ \ {pid}]
          /\ IF pid \in DOMAIN id_to_page /\ is_dirty(id_to_page[pid])
             THEN id_to_page' = [id_to_page EXCEPT ![pid] = abort_page(@, t)]
             ELSE UNCHANGED id_to_page
    /\ UNCHANGED << catalog_vars, call, latches, COUNTER, lm_vars, file, pc, frame, ops,
                    hist_vars >>

\* BufferPool::abort_transaction: after the loop, release_locks(tid).  Called
\* from acquire_lock, the thread then panics ("Transaction aborted").
AbortRelease(t) ==
    /\ pc[t] \in {"abort", "die"}
    /\ locked_pages[t] = {}
    /\ page_to_locks' = release_page_to_locks(page_to_locks, transaction_to_locks, t)
    /\ transaction_to_locks' = release_transaction_to_locks(transaction_to_locks, t)
    /\ pc' = [pc EXCEPT ![t] = IF pc[t] = "die" THEN "died" ELSE "aborted"]
    /\ UNCHANGED << catalog_vars, call, latches, COUNTER, id_to_page, file, frame, locked_pages,
                    ops, hist_vars >>

\* The steps of transaction t's thread inside get_page, insert_tuple,
\* commit_transaction and abort_transaction.
Step(t) ==
    \/ AcquireLockReturn(t)
    \/ AcquireLockWait(t)
    \/ AcquireLockDie(t)
    \/ GetPageHit(t)
    \/ GetPageMiss(t)
    \/ GetPageLoad(t)
    \/ InsertProbe(t)
    \/ InsertWrite(t)
    \/ StartCommit(t)
    \/ CommitPage(t)
    \/ CommitRelease(t)
    \/ StartAbort(t)
    \/ AbortPage(t)
    \/ AbortRelease(t)

\* Transactions that insert into the tables of the catalog and commit or abort.
Next ==
    \E t \in Tids :
        \/ Begin(t)
        \/ \E table \in catalog : StartInsert(t, table)
        \/ Step(t)

Spec == Init /\ [][Next]_vars

\* The same transactions, all inserting into table 1.
NextOne ==
    \E t \in Tids :
        \/ Begin(t)
        \/ StartInsert(t, 1)
        \/ Step(t)

\* Table 2 is not used: its file is left empty.
InitOne == Init /\ file[2] = << >>

SpecOne == InitOne /\ [][NextOne]_vars

\* Every thread that can take a step eventually takes one (the threads are OS
\* threads and the retry loop of acquire_lock polls every 500 ms); a thread
\* between two operations eventually starts the next one, or commits or aborts.
FairOne ==
    SpecOne /\ \A t \in Tids : WF_vars(Begin(t) \/ StartInsert(t, 1) \/ Step(t))

\* Two transactions that insert and iterate over the pages of the tables.
IterTids == 0 .. (MaxTid - 2)

NextIter ==
    \E t \in IterTids :
        \/ Begin(t)
        \/ \E table \in catalog : StartInsert(t, table)
        \/ \E table \in catalog, exclusive \in BOOLEAN : StartIter(t, table, exclusive)
        \/ IterNext(t)
        \/ Step(t)

SpecIter == Init /\ [][NextIter]_vars

\* Two transactions that insert into table 1 and delete tuples they have read.
NextDelete ==
    \E t \in IterTids :
        \/ Begin(t)
        \/ StartInsert(t, 1)
        \/ \E pid \in DOMAIN id_to_page, i \in 0 .. (num_slots - 1), stamped \in BOOLEAN :
              StartDelete(t, pid, i, stamped)
        \/ GetPageNoTable(t)
        \/ DeleteWrite(t)
        \/ Step(t)

SpecDelete == InitOne /\ [][NextDelete]_vars


\* ------------------------------------------------- HeapPage on its own
\* Everything but the catalog and the call record.
db_vars == << COUNTER, lm_vars, id_to_page, file, pc, frame, locked_pages, ops, hist_vars,
             latches >>

\* The record ids of the tuples handed to a page on its own: the one
\* Tuple::new gives every tuple, and those of page 0 of table 1 (slot numbers
\* up to num_slots, one more than the page has).
PageRecordIds ==
    {RecordId(HeapPageId(0, 0), 0)}
    \cup {RecordId(HeapPageId(1, 0), i) : i \in 0 .. num_slots}

\* The String fields main.rs builds from a string of one byte: with the
\* length of the string, or with a larger length (as
\* StringField::new("Alice".to_string(), 7)).
PageStrings(v) == {StringField(<< v >>, Len(<< v >>)), StringField(<< v >>, STRING_SIZE)}

\* The tuples handed to HeapPage::add_tuple and HeapPage::delete_tuple: as
\* Tuple::new builds them, or with a record id set by set_record_id.
PageTuples ==
    UNION {{set_record_id(Tuple(<< IntField(v), str >>), rid) :
               str \in PageStrings(v), rid \in PageRecordIds} :
           v \in 0 .. MaxField}

\* Page 0 of table 1 decoded by HeapPage::new from a page of zeros.
InitPage ==
    /\ InitState
    /\ LoadedCatalog
    /\ \A table \in catalog : file[table] = << >>
    /\ call = [op |-> "new", ok |-> TRUE,
               page |-> HeapPageNew(HeapPageId(1, 0), zeros(PAGE_SIZE))]

\* HeapPage::add_tuple(tup) on the page: Ok and the page with the tuple, or
\* Err("No empty slots") and the page as it was.
PageAddTuple(tup) ==
    /\ call.op \in {"new", "add_tuple", "delete_tuple"}
    /\ call' = [op |-> "add_tuple", tuple |-> tup, before |-> call.page,
                ok |-> FirstFreeSlot(call.page) < num_slots,
                page |-> IF FirstFreeSlot(call.page) < num_slots
                         THEN add_tuple_page(call.page, tup)
                         ELSE call.page]
    /\ UNCHANGED << db_vars, catalog_vars >>

\* HeapPage::delete_tuple(tup) on the page: Ok and the page without the
\* tuple, or Err("Tuple not on this page") and the page as it was.
PageDeleteTuple(tup) ==
    /\ call.op \in {"new", "add_tuple", "delete_tuple"}
    /\ call' = [op |-> "delete_tuple", tuple |-> tup, before |-> call.page,
                ok |-> delete_tuple_ok(call.page, tup),
                page |-> IF delete_tuple_ok(call.page, tup)
                         THEN delete_tuple_page(call.page, tup)
                         ELSE call.page]
    /\ UNCHANGED << db_vars, catalog_vars >>

\* Any sequence of add_tuple and delete_tuple on one page.
NextPage ==
    \E tup \in PageTuples :
        \/ PageAddTuple(tup)
        \/ PageDeleteTuple(tup)

SpecPage == InitPage /\ [][NextPage]_vars


\* ------------------------------------------------- HeapFile on its own
\* The pages handed to HeapFile::write_page: page n of table 1 with no tuple,
\* or one tuple.
FilePages ==
    UNION {{HeapPageNew(HeapPageId(1, n), zeros(PAGE_SIZE)),
            add_tuple_page(HeapPageNew(HeapPageId(1, n), zeros(PAGE_SIZE)),
                           Tuple(<< IntField(n), StringField(<< n >>, 1) >>))} :
           n \in 0 .. MaxPageNo}

\* HeapFile::read_page(pid) on the file of table 1: the file is extended and
\* the page is decoded.
FileReadPage(n) ==
    /\ call' = [op |-> "read_page", n |-> n, before |-> file[1],
                page |-> read_page(file[1], HeapPageId(1, n))]
    /\ file' = [file EXCEPT ![1] = extend_file(@, n)]
    /\ UNCHANGED << latches, COUNTER, lm_vars, id_to_page, pc, frame, locked_pages, ops,
                    hist_vars, catalog_vars >>

\* HeapFile::write_page(page) on the file of table 1.
FileWritePage(page) ==
    /\ call' = [op |-> "write_page", n |-> page.pid.page_number, before |-> file[1],
                page |-> page]
    /\ file' = [file EXCEPT ![1] = write_page(@, page)]
    /\ UNCHANGED << latches, COUNTER, lm_vars, id_to_page, pc, frame, locked_pages, ops,
                    hist_vars, catalog_vars >>

\* Any sequence of read_page and write_page on the file of table 1.
NextFile ==
    \/ \E n \in 0 .. MaxPageNo : FileReadPage(n)
    \/ \E page \in FilePages : FileWritePage(page)

SpecFile == InitOne /\ [][NextFile]_vars


\* ---------------------------------------------------- Tuple on its own
\* The strings given to StringField::new: up to STRING_SIZE + 1 bytes, each
\* NUL or "A".
TupleStrings == UNION {[1 .. n -> {0, 65}] : n \in 0 .. (STRING_SIZE + 1)}

\* The tuples of descriptor td given to Tuple::serialize: an Int field and a
\* String field built by StringField::new(value, len) with any len up to
\* STRING_SIZE + 1.
TupleInputs ==
    {Tuple(<< IntField(v), StringField(str, len) >>) :
        v \in (-1) .. MaxField, str \in TupleStrings, len \in 0 .. (STRING_SIZE + 1)}

\* A tuple has been built by Tuple::new.
InitTuple ==
    /\ InitState
    /\ LoadedCatalog
    /\ \A table \in catalog : file[table] = << >>
    /\ \E t \in TupleInputs : call = [op |-> "Tuple::new", tuple |-> t]

\* Tuple::serialize on the tuple.
TupleSerialize ==
    /\ call.op \in {"Tuple::new", "deserialize"}
    /\ call.op = "deserialize" => call.ok
    /\ call' = [op |-> "serialize", tuple |-> call.tuple, bytes |-> serialize(call.tuple)]
    /\ UNCHANGED << db_vars, catalog_vars >>

\* Tuple::deserialize(bytes, td) on the bytes of the tuple: the tuple read,
\* or a panic in Type::parse.
TupleDeserialize ==
    /\ call.op = "serialize"
    /\ call' = [op |-> "deserialize", from |-> call.tuple, bytes |-> call.bytes,
                ok |-> deserialize_ok(call.bytes, td),
                tuple |-> IF deserialize_ok(call.bytes, td)
                          THEN deserialize(call.bytes)
                          ELSE Tuple(<< >>)]
    /\ UNCHANGED << db_vars, catalog_vars >>

NextTuple == TupleSerialize \/ TupleDeserialize

SpecTuple == InitTuple /\ [][NextTuple]_vars


\* ---------------------------------------------------- Catalog on its own
Writers == 1 .. MaxWriters

\* Catalog::new: both indexes are empty.
InitCatalog ==
    /\ InitState
    /\ \A table \in catalog : file[table] = << >>
    /\ tables = EmptyMap
    /\ table_ids = EmptyMap
    /\ adding = EmptyMap
    /\ call = NoCall

\* HeapFile::get_id of the next file HeapFile::new creates (a new Uuid; the
\* files are numbered in the order of creation).
NewFileId ==
    1 + Cardinality((DOMAIN table_ids) \cup {adding[w].file : w \in DOMAIN adding})

\* The write latch of Catalog.tables is held from the first line of
\* add_table to its return.
TablesLatched == DOMAIN adding # {}

\* The write latch of Catalog.table_ids is held from the fourth line of
\* add_table until the guard is dropped (before the guard of tables).
TableIdsLatched == \E w \in DOMAIN adding : adding[w].pc = "table_ids"

\* Catalog::add_table(file, name), lines 25-27: the write latch of tables is
\* taken and the file is inserted under its name (replacing a file of that
\* name).
AddTableNames(w, name) ==
    /\ w \notin DOMAIN adding
    /\ ~TablesLatched
    /\ NewFileId <= MaxFiles
    /\ tables' = MapPut(tables, name, NewFileId)
    /\ adding' = MapPut(adding, w, [pc |-> "tables", name |-> name, file |-> NewFileId])
    /\ UNCHANGED << db_vars, table_ids, call >>

\* Catalog::add_table, lines 28-29: the write latch of table_ids is taken and
\* the file is inserted under its id.
AddTableIds(w) ==
    /\ w \in DOMAIN adding
    /\ adding[w].pc = "tables"
    /\ ~TableIdsLatched
    /\ table_ids' = MapPut(table_ids, adding[w].file, tables[adding[w].name])
    /\ adding' = [adding EXCEPT ![w].pc = "table_ids"]
    /\ UNCHANGED << db_vars, tables, call >>

\* Catalog::add_table returns: the guard of table_ids is dropped first.
AddTableDropIds(w) ==
    /\ w \in DOMAIN adding
    /\ adding[w].pc = "table_ids"
    /\ adding' = [adding EXCEPT ![w].pc = "return"]
    /\ UNCHANGED << db_vars, tables, table_ids, call >>

\* Catalog::add_table returns: the guard of tables is dropped.
AddTableReturn(w) ==
    /\ w \in DOMAIN adding
    /\ adding[w].pc = "return"
    /\ adding' = MapRemove(adding, w)
    /\ UNCHANGED << db_vars, tables, table_ids, call >>

\* Catalog::get_table_from_name under the read latch of tables.
GetTableFromName(name) ==
    /\ ~TablesLatched
    /\ call' = [op |-> "get_table_from_name", arg |-> name,
                result |-> IF name \in DOMAIN tables THEN Some(tables[name]) ELSE None]
    /\ UNCHANGED << db_vars, catalog_vars >>

\* Catalog::get_table_from_id under the read latch of table_ids.
GetTableFromId(id) ==
    /\ ~TableIdsLatched
    /\ call' = [op |-> "get_table_from_id", arg |-> id,
                result |-> IF id \in DOMAIN table_ids THEN Some(table_ids[id]) ELSE None]
    /\ UNCHANGED << db_vars, catalog_vars >>

\* Threads that add tables (load_schema) and threads that look tables up.
NextCatalog ==
    \/ \E w \in Writers :
          \/ \E name \in {employees, products} : AddTableNames(w, name)
          \/ AddTableIds(w)
          \/ AddTableDropIds(w)
          \/ AddTableReturn(w)
    \/ \E name \in {employees, products} : GetTableFromName(name)
    \/ \E id \in 1 .. MaxFiles : GetTableFromId(id)

SpecCatalog == InitCatalog /\ [][NextCatalog]_vars


\* ------------------------------------------- a table with a wide descriptor
\* A tuple descriptor whose size is larger than PAGE_SIZE - 1 (in the program:
\* sixteen String fields, 4160 bytes).
wide_td == << "StringType", "StringType", "StringType", "StringType" >>

\* HeapPage::new: num_slots for a descriptor
num_slots_of(types) == (PAGE_SIZE * 8) \div (SumLen(types) * 8 + 1)

\* The table that HeapFile::new was given wide_td for.
WideTable == 2

\* HeapPage::new for the descriptor wide_td.
HeapPageNewWide(pid, data) ==
    LET header == SubSeq(data, 1, (num_slots_of(wide_td) + 7) \div 8)
    IN  [pid        |-> pid,
         header     |-> header,
         tuples     |-> [i \in 1 .. num_slots_of(wide_td) |->
                            IF get_slot(header, i - 1)
                            THEN Tuple(parse_fields(SubSeq(data,
                                     Len(header) + (i - 1) * SumLen(wide_td) + 1,
                                     Len(header) + i * SumLen(wide_td)), wide_td))
                            ELSE Tuple(<< >>)],
         old_data   |-> zeros(PAGE_SIZE),
         dirtied_by |-> None]

\* HeapPage::get_num_empty_slots of a page of the wide table
get_num_empty_slots_wide(page) ==
    Cardinality({i \in 0 .. (num_slots_of(wide_td) - 1) : ~get_slot(page.header, i)})

\* Both files are empty.
InitWide == Init /\ file[1] = << >> /\ file[WideTable] = << >>

\* BufferPool::get_page after a miss, for a page of the wide table.
GetPageLoadWide(t) ==
    /\ pc[t] = "miss"
    /\ frame[t].table_id = WideTable
    /\ file' = [file EXCEPT ![frame[t].table_id] = extend_file(@, frame[t].page_no)]
    /\ id_to_page' = MapPut(id_to_page, ReqPid(t),
                            HeapPageNewWide(ReqPid(t),
                                read_bytes(file[frame[t].table_id], frame[t].page_no)))
    /\ grown' = [grown EXCEPT ![t] =
                    @ + num_pages(extend_file(file[frame[t].table_id], frame[t].page_no))
                      - num_pages(file[frame[t].table_id])]
    /\ ReturnFromGetPage(t)
    /\ UNCHANGED << catalog_vars, call, latches, COUNTER, lm_vars, locked_pages, ops, inserted,
                    first_image, slept >>

\* HeapFile::add_tuple on the wide table: get_num_empty_slots under the page's
\* read latch; then get_page(tid, pid, Write) for this page, or the next page
\* with Read.  The scan is cut off at page MaxPageNo.
InsertProbeWide(t) ==
    /\ pc[t] = "probe"
    /\ frame[t].table_id = WideTable
    /\ frame[t].page_no < MaxPageNo
    /\ frame' = [frame EXCEPT ![t] =
                    IF get_num_empty_slots_wide(id_to_page[ReqPid(t)]) > 0
                    THEN [@ EXCEPT !.exclusive = TRUE]
                    ELSE [@ EXCEPT !.page_no = @ + 1]]
    /\ pc' = [pc EXCEPT ![t] = "lock"]
    /\ UNCHANGED << catalog_vars, call, latches, COUNTER, lm_vars, id_to_page, file,
                    locked_pages,
                    ops, hist_vars >>

\* Transactions that insert into the wide table.
NextWide ==
    \E t \in Tids :
        \/ Begin(t)
        \/ StartInsert(t, WideTable)
        \/ AcquireLockReturn(t)
        \/ GetPageHit(t)
        \/ GetPageMiss(t)
        \/ GetPageLoadWide(t)
        \/ InsertProbeWide(t)

SpecWide == InitWide /\ [][NextWide]_vars

\* ------------------------------------------------- the latches (RwLock)
\* The RwLock of LockManager.page_to_locks and of
\* LockManager.transaction_to_locks, and the RwLock around the cached page pid.
page_to_locks_latch == [of |-> "page_to_locks"]
transaction_to_locks_latch == [of |-> "transaction_to_locks"]
page_latch(pid) == [of |-> "page", pid |-> pid]

\* A guard: the read guard or the write guard of an RwLock.
Guard(l, write) == [latch |-> l, write |-> write]

\* RwLock::read returns: no thread has the write guard.
can_read(held, l) == \A u \in Tids : Guard(l, TRUE) \notin held[u]

\* RwLock::write returns: no thread has a guard.
can_write(held, l) ==
    \A u \in Tids : Guard(l, TRUE) \notin held[u] /\ Guard(l, FALSE) \notin held[u]

\* A drop that leaves the guard where it is.
drop_forgotten(guards, l) == guards

\* drop(guard): the guards of a thread without its guard of l.
drop(guards, l) == {g \in guards : g.latch # l}

\* LockManager::acquire_lock, the early return: under the read guard of
\* transaction_to_locks, which the block gives up at its end.
AcquireEarly(t) ==
    /\ pc[t] = "lock"
    /\ can_read(latches, transaction_to_locks_latch)
    /\ pc' = [pc EXCEPT ![t] =
                 IF has_appropriate_lock(transaction_to_locks, t, ReqPid(t),
                                         frame[t].exclusive)
                 THEN "cache" ELSE "loop"]
    /\ UNCHANGED << catalog_vars, call, latches, COUNTER, lm_vars, id_to_page, file,
                    frame, locked_pages, ops, hist_vars >>

\* LockManager::acquire_lock, the head of the loop (on entry, or after the
\* sleep): page_to_locks.write().
LatchPageToLocks(t) ==
    /\ pc[t] \in {"loop", "sleep"}
    /\ can_write(latches, page_to_locks_latch)
    /\ latches' = [latches EXCEPT ![t] = @ \cup {Guard(page_to_locks_latch, TRUE)}]
    /\ pc' = [pc EXCEPT ![t] = "loop2"]
    /\ UNCHANGED << catalog_vars, call, COUNTER, lm_vars, id_to_page, file, frame,
                    locked_pages, ops, hist_vars >>

\* LockManager::acquire_lock: transaction_to_locks.write().
LatchTransactionToLocks(t) ==
    /\ pc[t] = "loop2"
    /\ can_write(latches, transaction_to_locks_latch)
    /\ latches' = [latches EXCEPT ![t] = @ \cup {Guard(transaction_to_locks_latch, TRUE)}]
    /\ pc' = [pc EXCEPT ![t] = "latched"]
    /\ UNCHANGED << catalog_vars, call, COUNTER, lm_vars, id_to_page, file, frame,
                    locked_pages, ops, hist_vars >>

\* LockManager::acquire_lock under both write guards: the lock is held,
\* upgraded or added, and the function returns (its guards go out of scope).
LatchedReturn(t) ==
    LET out == acquire_outcome(page_to_locks, transaction_to_locks, t, ReqPid(t),
                               frame[t].exclusive, FALSE)
    IN  /\ pc[t] = "latched"
        /\ out \in {"held", "upgrade", "grant"}
        /\ page_to_locks' =
              IF out = "upgrade" THEN upgrade_page_to_locks(page_to_locks, t, ReqPid(t))
              ELSE IF out = "grant"
              THEN grant_page_to_locks(page_to_locks, t, ReqPid(t), frame[t].exclusive)
              ELSE page_to_locks
        /\ transaction_to_locks' =
              IF out = "upgrade"
              THEN upgrade_transaction_to_locks(transaction_to_locks, t, ReqPid(t))
              ELSE IF out = "grant"
              THEN grant_transaction_to_locks(transaction_to_locks, t, ReqPid(t),
                                              frame[t].exclusive)
              ELSE transaction_to_locks
        /\ latches' = [latches EXCEPT ![t] = {}]
        /\ pc' = [pc EXCEPT ![t] = "cache"]
        /\ UNCHANGED << catalog_vars, call, COUNTER, id_to_page, file, frame,
                        locked_pages, ops, hist_vars >>

\* LockManager::acquire_lock under both write guards, conflict and not abort:
\* drop(page_to_locks), drop(transaction_to_locks), then the sleep.
LatchedWait(t) ==
    /\ pc[t] = "latched"
    /\ acquire_outcome(page_to_locks, transaction_to_locks, t, ReqPid(t),
                       frame[t].exclusive, FALSE) = "wait"
    /\ latches' = [latches EXCEPT ![t] =
                      drop(drop(@, page_to_locks_latch), transaction_to_locks_latch)]
    /\ pc' = [pc EXCEPT ![t] = "sleep"]
    /\ slept' = [slept EXCEPT ![t] = TRUE]
    /\ UNCHANGED << catalog_vars, call, COUNTER, lm_vars, id_to_page, file, frame,
                    locked_pages, ops, inserted, first_image, grown >>

\* LockManager::acquire_lock under both write guards, conflict and abort:
\* drop(page_to_locks), drop(transaction_to_locks), then
\* BufferPool::abort_transaction(tid), which starts with get_locked_pages.
LatchedDie(t) ==
    /\ pc[t] = "latched"
    /\ acquire_outcome(page_to_locks, transaction_to_locks, t, ReqPid(t),
                       frame[t].exclusive, FALSE) = "die"
    /\ latches' = [latches EXCEPT ![t] =
                      drop(drop(@, page_to_locks_latch), transaction_to_locks_latch)]
    /\ pc' = [pc EXCEPT ![t] = "die"]
    /\ locked_pages' = [locked_pages EXCEPT ![t] = get_locked_pages(transaction_to_locks, t)]
    /\ slept' = [slept EXCEPT ![t] = FALSE]
    /\ UNCHANGED << catalog_vars, call, COUNTER, lm_vars, id_to_page, file, frame, ops,
                    inserted, first_image, grown >>

\* HeapFile::add_tuple: page.read() on the page get_page(tid, pid, Read) returned.
LatchPageRead(t) ==
    /\ pc[t] = "probe"
    /\ can_read(latches, page_latch(ReqPid(t)))
    /\ latches' = [latches EXCEPT ![t] = @ \cup {Guard(page_latch(ReqPid(t)), FALSE)}]
    /\ pc' = [pc EXCEPT ![t] = "probing"]
    /\ UNCHANGED << catalog_vars, call, COUNTER, lm_vars, id_to_page, file, frame,
                    locked_pages, ops, hist_vars >>

\* HeapFile::add_tuple under the read guard of the page: with a free slot,
\* drop(page_read) and get_page(tid, pid, Write); with none, page_no += 1, the
\* guard goes out of scope at the end of the loop body, and
\* get_page(tid, next pid, Read).
ProbeUnderLatch(t) ==
    /\ pc[t] = "probing"
    /\ IF get_num_empty_slots(id_to_page[ReqPid(t)]) > 0
       THEN /\ frame' = [frame EXCEPT ![t].exclusive = TRUE]
            /\ latches' = [latches EXCEPT ![t] = drop(@, page_latch(ReqPid(t)))]
       ELSE /\ frame' = [frame EXCEPT ![t].page_no = @ + 1]
            /\ latches' = [latches EXCEPT ![t] = @ \ {Guard(page_latch(ReqPid(t)), FALSE)}]
    /\ pc' = [pc EXCEPT ![t] = "lock"]
    /\ UNCHANGED << catalog_vars, call, COUNTER, lm_vars, id_to_page, file, locked_pages,
                    ops, hist_vars >>

\* HeapFile::add_tuple: page.write() on the page get_page(tid, pid, Write)
\* returned.
LatchPageWrite(t) ==
    /\ pc[t] = "write"
    /\ can_write(latches, page_latch(ReqPid(t)))
    /\ latches' = [latches EXCEPT ![t] = @ \cup {Guard(page_latch(ReqPid(t)), TRUE)}]
    /\ pc' = [pc EXCEPT ![t] = "writing"]
    /\ UNCHANGED << catalog_vars, call, COUNTER, lm_vars, id_to_page, file, frame,
                    locked_pages, ops, hist_vars >>

\* HeapFile::add_tuple under the write guard of the page: HeapPage::add_tuple
\* (unwrap: a full page panics with the guard held), mark_dirty(true, tid),
\* return (the guard goes out of scope).
WriteUnderLatch(t) ==
    LET pid == ReqPid(t)
        page == id_to_page[pid]
    IN  /\ pc[t] = "writing"
        /\ IF FirstFreeSlot(page) < num_slots
           THEN /\ id_to_page' = [id_to_page EXCEPT ![pid] =
                                     mark_dirty(add_tuple_page(page, NewTuple(t)), TRUE, t)]
                /\ pc' = [pc EXCEPT ![t] = "idle"]
                /\ ops' = [ops EXCEPT ![t] = @ + 1]
                /\ inserted' = [inserted EXCEPT ![t][pid.table_id] = @ + 1]
                /\ first_image' = [first_image EXCEPT ![t] =
                                      IF pid \in DOMAIN @ THEN @ ELSE MapPut(@, pid, page)]
                /\ latches' = [latches EXCEPT ![t] = {}]
           ELSE /\ pc' = [pc EXCEPT ![t] = "panicked"]
                /\ UNCHANGED << id_to_page, ops, inserted, first_image, latches >>
        /\ UNCHANGED << catalog_vars, call, COUNTER, lm_vars, file, frame, locked_pages,
                        slept, grown >>

\* BufferPool::commit_transaction is called: get_locked_pages(tid) under the
\* read guard of transaction_to_locks.
StartCommitLatched(t) ==
    /\ can_read(latches, transaction_to_locks_latch)
    /\ StartCommit(t)

\* BufferPool::commit_transaction: the body of the loop for one locked page,
\* under the write guard of the page.
CommitPageLatched(t) ==
    /\ pc[t] = "commit"
    /\ \E pid \in locked_pages[t] :
          /\ pid \in DOMAIN id_to_page => can_write(latches, page_latch(pid))
          /\ locked_pages' = [locked_pages EXCEPT ![t] = @ \ {pid}]
          /\ IF pid \in DOMAIN id_to_page /\ is_dirty(id_to_page[pid])
             THEN /\ file' = [file EXCEPT ![pid.table_id] = write_page(@, id_to_page[pid])]
                  /\ id_to_page' = [id_to_page EXCEPT ![pid] = commit_page(@, t)]
             ELSE UNCHANGED << file, id_to_page >>
    /\ UNCHANGED << catalog_vars, call, latches, COUNTER, lm_vars, pc, frame, ops,
                    hist_vars >>

\* BufferPool::abort_transaction: the body of the loop for one locked page,
\* under the write guard of the page.
AbortPageLatched(t) ==
    /\ pc[t] \in {"abort", "die"}
    /\ \E pid \in locked_pages[t] :
          /\ pid \in DOMAIN id_to_page => can_write(latches, page_latch(pid))
          /\ locked_pages' = [locked_pages EXCEPT ![t] = @ \ {pid}]
          /\ IF pid \in DOMAIN id_to_page /\ is_dirty(id_to_page[pid])
             THEN id_to_page' = [id_to_page EXCEPT ![pid] = abort_page(@, t)]
             ELSE UNCHANGED id_to_page
    /\ UNCHANGED << catalog_vars, call, latches, COUNTER, lm_vars, file, pc, frame, ops,
                    hist_vars >>

\* LockManager::release_locks at the end of commit_transaction and of
\* abort_transaction: under the write guards of both indexes.
CommitReleaseLatched(t) ==
    /\ can_write(latches, page_to_locks_latch)
    /\ can_write(latches, transaction_to_locks_latch)
    /\ CommitRelease(t)

AbortReleaseLatched(t) ==
    /\ can_write(latches, page_to_locks_latch)
    /\ can_write(latches, transaction_to_locks_latch)
    /\ AbortRelease(t)

\* Transactions that insert into table 1 and commit, each step taking or
\* giving up the guards the code takes and gives up.
NextLatch ==
    \E t \in Tids :
        \/ Begin(t)
        \/ StartInsert(t, 1)
        \/ AcquireEarly(t)
        \/ LatchPageToLocks(t)
        \/ LatchTransactionToLocks(t)
        \/ LatchedReturn(t)
        \/ LatchedWait(t)
        \/ LatchedDie(t)
        \/ GetPageHit(t)
        \/ GetPageMiss(t)
        \/ GetPageLoad(t)
        \/ LatchPageRead(t)
        \/ ProbeUnderLatch(t)
        \/ LatchPageWrite(t)
        \/ WriteUnderLatch(t)
        \/ StartCommitLatched(t)
        \/ CommitPageLatched(t)
        \/ CommitReleaseLatched(t)
        \/ AbortPageLatched(t)
        \/ AbortReleaseLatched(t)

SpecLatch == InitOne /\ [][NextLatch]_vars

\* ================================================================= claims
\* Every lock of the lock table, from either index.
AllLocks ==
    UNION {page_to_locks[pid] : pid \in DOMAIN page_to_locks}
    \cup UNION {transaction_to_locks[t] : t \in DOMAIN transaction_to_locks}

\* The locks on page pid in the page index.
LocksOn(pid) == MapGetOrEmpty(page_to_locks, pid)

\* Transaction t is inside acquire_lock (before a pass of the loop, or asleep).
InAcquire(t) == pc[t] \in {"lock", "sleep"}

\* The locks of other transactions on the page t asks for.
OtherHolders(t) == {lock \in LocksOn(ReqPid(t)) : lock.tid # t}

\* The locks of other transactions that the request of t is incompatible with.
ConflictingHolders(t) ==
    {lock \in OtherHolders(t) : lock.exclusive \/ frame[t].exclusive}

\* A pass of acquire_lock by t would take the wait branch again.
WouldWait(t) ==
    /\ InAcquire(t)
    /\ acquire_outcome(page_to_locks, transaction_to_locks, t, ReqPid(t),
                       frame[t].exclusive, pc[t] = "lock") = "wait"

\* Transaction t takes the wait branch in this step (from the first pass; a
\* retry that waits again leaves the state as it is).
TakesWaitBranch(t) == pc[t] = "lock" /\ pc'[t] = "sleep"

\* C1: in every reachable state of the lock table, two locks of different
\* transactions on the same page are both shared: an exclusive lock is the
\* only lock on its page.
C1_ExclusiveLockIsAlone ==
    \A l1 \in AllLocks : \A l2 \in AllLocks :
        (l1.pid = l2.pid /\ l1.tid # l2.tid) => (~l1.exclusive /\ ~l2.exclusive)

\* C1 witness: a page is held exclusively while another transaction that asked
\* for it is asleep in acquire_lock.
C1_Witness ==
    \E t \in Tids :
        /\ pc[t] = "sleep"
        /\ \E lock \in OtherHolders(t) : lock.exclusive

\* The requester finds a conflict with an older holder: its next step is the
\* die branch.
C2_Dies(t) ==
    (InAcquire(t) /\ ConflictingHolders(t) # {}
        /\ (\E lock \in LocksOn(ReqPid(t)) : lock.tid < t)
        /\ pc'[t] # pc[t])
    => pc'[t] = "die"

\* When the panic is reached abort_transaction has completed: every page the
\* requester dirtied is the decoded before-image and clean, no cached page is
\* dirtied by it, it has no lock in either index.
C2_AbortedBeforePanic(t) ==
    (pc[t] = "die" /\ pc'[t] = "died")
    => /\ \A pid \in DOMAIN first_image[t] :
             id_to_page'[pid] = HeapPageNew(pid, first_image[t][pid].old_data)
       /\ \A pid \in DOMAIN id_to_page' : id_to_page'[pid].dirtied_by # Some(t)
       /\ \A lock \in AllLocks' : lock.tid # t
       /\ t \notin DOMAIN transaction_to_locks'
       /\ holds_lock(transaction_to_locks', t, ReqPid(t)) = None

\* No step of the dying transaction changes a lock of another transaction.
C2_OthersKeepLocks(t) ==
    ((InAcquire(t) \/ pc[t] = "die") /\ pc'[t] \in {"die", "died"}
        /\ (pc'[t] # pc[t] \/ locked_pages'[t] # locked_pages[t]))
    => {lock \in AllLocks' : lock.tid # t} = {lock \in AllLocks : lock.tid # t}

\* When the panic is reached every page the requester dirtied is reverted: it
\* encodes to the bytes it encoded to before the requester's first write.
C2_Reverted(t) ==
    (pc[t] = "die" /\ pc'[t] = "died")
    => \A pid \in DOMAIN first_image[t] :
          get_page_data(id_to_page'[pid]) = get_page_data(first_image[t][pid])

\* C2: when acquire_lock finds a conflict and a holder of the page is older,
\* the requester dies; before the panic abort_transaction has completed, so
\* every page the requester dirtied is reverted and the requester holds no lock
\* (none on the page it asked for); the locks of every other transaction are
\* what they were.
C2_YoungerRequesterDies ==
    [][\A t \in Tids :
          /\ C2_Dies(t)
          /\ C2_AbortedBeforePanic(t)
          /\ C2_Reverted(t)
          /\ C2_OthersKeepLocks(t)]_vars

\* What does hold of the die branch: C2 with "reverted" read as "replaced by
\* the page decoded from the before-image the cached page carries".
C2_DiesWithBeforeImage ==
    [][\A t \in Tids :
          C2_Dies(t) /\ C2_AbortedBeforePanic(t) /\ C2_OthersKeepLocks(t)]_vars

\* C2 witness: a transaction that had dirtied a page has died, while the older
\* transaction still holds its lock on the page asked for.
C2_Witness ==
    \E t \in Tids :
        /\ pc[t] = "died"
        /\ DOMAIN first_image[t] # {}
        /\ \E lock \in LocksOn(ReqPid(t)) : lock.tid < t

\* Every other holder of the page t asks for is younger than t.
OlderThanOtherHolders(t) == \A lock \in OtherHolders(t) : t < lock.tid

\* C3: whenever acquire_lock takes the wait branch, the requester is older
\* than every other holder of the page, and the step changes neither index.
C3_WaiterIsOldest ==
    /\ [][\A t \in Tids :
             TakesWaitBranch(t) =>
                 /\ OlderThanOtherHolders(t)
                 /\ page_to_locks' = page_to_locks
                 /\ transaction_to_locks' = transaction_to_locks]_vars
    /\ [](\A t \in Tids : WouldWait(t) => OlderThanOtherHolders(t))

\* C3 witness: a transaction sleeps while two younger transactions hold the page.
C3_Witness ==
    \E t \in Tids :
        /\ pc[t] = "sleep"
        /\ WouldWait(t)
        /\ Cardinality({lock.tid : lock \in OtherHolders(t)}) >= 2

\* C4 as stated: whenever acquire_lock waits, every conflicting holder is
\* older than the waiter.
C4_AsStated ==
    [][\A t \in Tids :
          TakesWaitBranch(t) => \A lock \in ConflictingHolders(t) : lock.tid < t]_vars

\* C4 amended: whenever acquire_lock waits, there is a conflicting holder and
\* every conflicting holder is younger than the waiter.
C4_ConflictingHoldersAreYounger ==
    [][\A t \in Tids :
          TakesWaitBranch(t) =>
              /\ ConflictingHolders(t) # {}
              /\ \A lock \in ConflictingHolders(t) : lock.tid > t]_vars

\* C4 witness: a shared request sleeps behind a younger exclusive holder.
C4_Witness ==
    \E t \in Tids :
        /\ pc[t] = "sleep"
        /\ ~frame[t].exclusive
        /\ \E lock \in ConflictingHolders(t) : lock.exclusive /\ lock.tid > t

\* Transaction t is blocked in acquire_lock by a lock transaction u holds.
WaitsFor(t, u) ==
    /\ pc[t] = "sleep"
    /\ \E lock \in ConflictingHolders(t) : lock.tid = u

\* C5 as stated: in every reachable state the waits-for relation among the
\* transactions blocked in acquire_lock has no cycle (no set of sleeping
\* transactions each of which waits for another member of the set).
C5_AsStated ==
    \A S \in SUBSET Tids :
        S # {} => \E t \in S : \A u \in S : ~WaitsFor(t, u)

\* C5 amended: there is no set of blocked transactions each of which would wait
\* again at its next retry for another member of the set; a blocked
\* transaction that would wait again is older than every transaction it waits for.
C5_NoDeadlock ==
    /\ \A S \in SUBSET Tids :
          S # {} => \E t \in S : ~WouldWait(t) \/ \A u \in S : ~WaitsFor(t, u)
    /\ \A t \in Tids : \A u \in Tids : (WouldWait(t) /\ WaitsFor(t, u)) => t < u

\* C5 witness: a chain of two blocked transactions, each of which would wait again.
C5_Witness ==
    \E t \in Tids : \E u \in Tids :
        /\ WaitsFor(t, u) /\ WouldWait(t)
        /\ pc[u] = "sleep" /\ WouldWait(u)

\* Transaction t sleeps in acquire_lock behind holders that are all younger.
WaitingOnYounger(t) ==
    /\ pc[t] = "sleep"
    /\ OtherHolders(t) # {}
    /\ OlderThanOtherHolders(t)

\* The acquire_lock call of t that slept has returned with the requested mode held.
Acquired(t) ==
    /\ pc[t] = "cache"
    /\ slept[t]
    /\ has_appropriate_lock(transaction_to_locks, t, ReqPid(t), frame[t].exclusive)

\* Transaction t has committed, aborted or died.
Finished(t) == pc[t] \in {"committed", "aborted", "died"}

AbortReturns(t) == pc[t] \in {"abort", "die"} /\ pc'[t] \in {"aborted", "died"}

\* C7: when abort_transaction(t) returns, every cached page t had dirtied has
\* the header bits and slot contents it had before t's first write to it and is
\* not dirty, and get_locked_pages(t) is empty.
C7_AbortRestoresPages ==
    [][\A t \in Tids :
          AbortReturns(t) =>
              /\ \A pid \in DOMAIN first_image[t] :
                    /\ id_to_page'[pid].header = first_image[t][pid].header
                    /\ get_page_data(id_to_page'[pid]) = get_page_data(first_image[t][pid])
                    /\ ~is_dirty(id_to_page'[pid])
              /\ get_locked_pages(transaction_to_locks', t) = {}]_vars

\* C8: once commit_transaction(t) has returned, t has no lock in either index,
\* get_locked_pages(t) is empty and no cached page is dirtied by t.
C8_CommittedHoldsNothing ==
    \A t \in Tids :
        pc[t] = "committed" =>
            /\ get_locked_pages(transaction_to_locks, t) = {}
            /\ \A lock \in AllLocks : lock.tid # t
            /\ \A pid \in DOMAIN id_to_page : id_to_page[pid].dirtied_by # Some(t)

\* C8 witness: a transaction that had locked and dirtied a page has committed.
C8_Witness ==
    \E t \in Tids :
        /\ pc[t] = "committed"
        /\ DOMAIN first_image[t] # {}
        /\ \E table \in catalog : inserted[t][table] > 0

\* The bytes of page page_no in file f (nothing when the file is shorter).
FileBytes(f, page_no) ==
    IF (page_no + 1) * PAGE_SIZE <= Len(f)
    THEN SubSeq(f, page_no * PAGE_SIZE + 1, (page_no + 1) * PAGE_SIZE)
    ELSE << >>

\* The step of commit_transaction(t) that visits locked page pid.
CommitsPage(t, pid) ==
    /\ pc[t] = "commit"
    /\ pid \in locked_pages[t]
    /\ locked_pages'[t] = locked_pages[t] \ {pid}

\* The step of commit_transaction(t) for a dirty page: the file holds the
\* encoding of the page, so does the before-image, the page is clean and its
\* contents are kept; no other page, cached or in a file, changes.
C9_DirtyPageWritten(t, pid) ==
    /\ FileBytes(file'[pid.table_id], pid.page_number) = get_page_data(id_to_page[pid])
    /\ id_to_page'[pid].old_data = get_page_data(id_to_page[pid])
    /\ get_page_data(id_to_page'[pid]) = get_page_data(id_to_page[pid])
    /\ ~is_dirty(id_to_page'[pid])
    /\ DOMAIN id_to_page' = DOMAIN id_to_page
    /\ \A q \in DOMAIN id_to_page : q # pid => id_to_page'[q] = id_to_page[q]
    /\ \A table \in catalog :
          /\ Len(file'[table]) = Len(file[table])
          /\ \A n \in 0 .. (num_pages(file[table]) - 1) :
                HeapPageId(table, n) # pid
                => FileBytes(file'[table], n) = FileBytes(file[table], n)

\* C9: commit_transaction(t) writes through the cached pages t has locked that
\* are dirty and nothing else; when it returns, the file bytes of every page t
\* dirtied are the encoding of the cached page, and so is its before-image.
C9_CommitWritesThrough ==
    [][\A t \in Tids :
          /\ \A pid \in locked_pages[t] :
                CommitsPage(t, pid) =>
                    IF pid \in DOMAIN id_to_page /\ is_dirty(id_to_page[pid])
                    THEN C9_DirtyPageWritten(t, pid)
                    ELSE file' = file /\ id_to_page' = id_to_page
          /\ (pc[t] = "commit" /\ pc'[t] = "committed") =>
                /\ file' = file /\ id_to_page' = id_to_page
                /\ \A pid \in DOMAIN first_image[t] :
                      /\ FileBytes(file'[pid.table_id], pid.page_number)
                            = get_page_data(id_to_page'[pid])
                      /\ id_to_page'[pid].old_data = get_page_data(id_to_page'[pid])]_vars

\* C9 witness: a transaction has committed that read page 0 of a table without
\* writing it and wrote page 1; the file holds its tuple on page 1.
C9_Witness ==
    \E t \in Tids : \E table \in catalog :
        LET pid == HeapPageId(table, 1)
        IN  /\ pc[t] = "committed"
            /\ DOMAIN first_image[t] = {pid}
            /\ FileBytes(file[table], 1) = get_page_data(id_to_page[pid])
            /\ \E i \in 1 .. Len(page_iter(id_to_page[pid], 0)) :
                  page_iter(id_to_page[pid], 0)[i].fields[1] = IntField(t)

\* No transaction is running.
Quiescent == \A t \in Tids : pc[t] = "none" \/ Finished(t)

\* HeapFileIterator::next for a transaction that holds the lock: the page
\* get_page returns (the cached page, or the page read from the file).
scan_page(table, n) ==
    IF HeapPageId(table, n) \in DOMAIN id_to_page
    THEN id_to_page[HeapPageId(table, n)]
    ELSE read_page(file[table], HeapPageId(table, n))

RECURSIVE scan(_, _)
\* TableIterator::new: the tuples of the pages of the table from page n on.
scan(table, n) ==
    IF n >= num_pages(file[table]) THEN << >>
    ELSE page_iter(scan_page(table, n), 0) \o scan(table, n + 1)

\* How many tuples of a scan of the table were inserted by transaction t.
ScanCount(table, t) ==
    Cardinality({i \in 1 .. Len(scan(table, 0)) : scan(table, 0)[i].fields[1] = IntField(t)})

\* C10: when every transaction has committed, aborted or died, a scan of a
\* table by a later transaction returns every tuple a committed transaction
\* inserted and no tuple of a transaction that aborted or died.
C10_ScanReturnsCommitted ==
    Quiescent =>
        \A table \in catalog : \A t \in Tids :
            ScanCount(table, t) = IF pc[t] = "committed" THEN inserted[t][table] ELSE 0

\* The step in which get_page returns a page to transaction t.
GetPageReturns(t) == pc[t] \in {"cache", "miss"} /\ pc'[t] \in {"probe", "write", "iter"}

\* The step in which commit_transaction or abort_transaction releases t's locks.
ReleasesLocks(t) ==
    pc[t] \in {"commit", "abort", "die"} /\ pc'[t] \in {"committed", "aborted", "died"}

\* C11: get_page never returns a page that is dirtied by another transaction
\* that has not committed or aborted; and when commit or abort releases the
\* locks of a transaction, no cached page is dirtied by it any more.
C11_NoDirtyReads ==
    [][\A t \in Tids :
          /\ GetPageReturns(t) =>
                \A u \in Tids \ {t} :
                    id_to_page'[ReqPid(t)].dirtied_by = Some(u) => Finished(u)
          /\ ReleasesLocks(t) =>
                \A pid \in DOMAIN id_to_page : id_to_page[pid].dirtied_by # Some(t)]_vars

\* C11 witness: a transaction has got a page from get_page that holds the
\* tuple of an earlier writer, which has committed.
C11_Witness ==
    \E t \in Tids : \E u \in Tids \ {t} :
        /\ pc[t] = "probe"
        /\ pc[u] = "committed"
        /\ ReqPid(t) \in DOMAIN first_image[u]
        /\ \E i \in 1 .. Len(page_iter(id_to_page[ReqPid(t)], 0)) :
              page_iter(id_to_page[ReqPid(t)], 0)[i].fields[1] = IntField(u)

\* The locks of transaction t, from either index.
LocksOf(t) == {lock \in AllLocks : lock.tid = t}

\* C12: a lock a transaction holds stays in the lock table, in the same mode
\* or upgraded from shared to exclusive, until the step in which the
\* transaction's commit or abort releases its locks; that step removes them
\* all, and no other step removes a lock.
C12_StrictTwoPhase ==
    [][\A t \in Tids :
          IF ReleasesLocks(t)
          THEN LocksOf(t)' = {}
          ELSE \A lock \in LocksOf(t) :
                  \/ lock \in LocksOf(t)'
                  \/ /\ ~lock.exclusive
                     /\ Lock(t, lock.pid, TRUE) \in LocksOf(t)']_vars

\* C12 witness: a transaction that upgraded a lock and holds locks on pages of
\* two tables is about to release them in commit_transaction.
C12_Witness ==
    \E t \in Tids :
        /\ pc[t] = "commit"
        /\ locked_pages[t] = {}
        /\ \E l1 \in LocksOf(t) : \E l2 \in LocksOf(t) :
              l1.pid.table_id # l2.pid.table_id /\ l1.exclusive

\* The bytes the file holds for cached page pid: what the last commit of a
\* write to the page wrote, or what the page was loaded from.
CommittedContent(pid) == FileBytes(file[pid.table_id], pid.page_number)

\* C13: in every reachable state the before-image of each cached page is the
\* encoded content of the page as of the last committed write to it, or as
\* loaded from disk when no write was committed since.
C13_BeforeImageIsCommitted ==
    \A pid \in DOMAIN id_to_page : id_to_page[pid].old_data = CommittedContent(pid)

\* The locks of the page index and the locks of the transaction index.
PageIndexLocks == UNION {page_to_locks[pid] : pid \in DOMAIN page_to_locks}
TransactionIndexLocks ==
    UNION {transaction_to_locks[t] : t \in DOMAIN transaction_to_locks}

\* C14: in every reachable state a lock is in the page index under its page
\* exactly when it is in the transaction index under its transaction, and the
\* page index has no entry with an empty set of locks.
C14_IndexesAgree ==
    /\ \A pid \in DOMAIN page_to_locks :
          /\ page_to_locks[pid] # {}
          /\ \A lock \in page_to_locks[pid] :
                /\ lock.pid = pid
                /\ lock.tid \in DOMAIN transaction_to_locks
                /\ lock \in transaction_to_locks[lock.tid]
    /\ \A t \in DOMAIN transaction_to_locks :
          \A lock \in transaction_to_locks[t] :
              /\ lock.tid = t
              /\ lock.pid \in DOMAIN page_to_locks
              /\ lock \in page_to_locks[lock.pid]

\* C14 witness: locks of two transactions on two pages are in the lock table
\* after another transaction has released its locks.
C14_Witness ==
    /\ \E t \in Tids : Finished(t) /\ DOMAIN first_image[t] # {}
    /\ Cardinality(DOMAIN page_to_locks) >= 2
    /\ Cardinality(DOMAIN transaction_to_locks) >= 2

\* C15: in every reachable state a transaction has at most one lock on a page
\* in each index, and holds_lock gives the mode of that lock.
C15_OneLockPerPage ==
    /\ \A l1 \in PageIndexLocks : \A l2 \in PageIndexLocks :
          (l1.tid = l2.tid /\ l1.pid = l2.pid) => l1 = l2
    /\ \A l1 \in TransactionIndexLocks : \A l2 \in TransactionIndexLocks :
          (l1.tid = l2.tid /\ l1.pid = l2.pid) => l1 = l2
    /\ \A lock \in TransactionIndexLocks :
          holds_lock(transaction_to_locks, lock.tid, lock.pid)
              = Some(IF lock.exclusive THEN "Write" ELSE "Read")

\* C15 witness: a transaction that slept for an upgrade holds the exclusive
\* lock on the page.
C15_Witness ==
    \E t \in Tids :
        /\ pc[t] = "cache"
        /\ slept[t]
        /\ frame[t].exclusive
        /\ holds_lock(transaction_to_locks, t, ReqPid(t)) = Some("Write")

\* release_locks(tid) applied to a lock table: both indexes afterwards.
release_locks(table, tid) ==
    [page_to_locks        |-> release_page_to_locks(table.page_to_locks,
                                                    table.transaction_to_locks, tid),
     transaction_to_locks |-> release_transaction_to_locks(table.transaction_to_locks, tid)]

\* The lock table of the state.
LockTable ==
    [page_to_locks |-> page_to_locks, transaction_to_locks |-> transaction_to_locks]

\* The locks of a lock table that belong to tid / to other transactions.
TableLocks(table) ==
    UNION {table.page_to_locks[pid] : pid \in DOMAIN table.page_to_locks}
    \cup UNION {table.transaction_to_locks[t] : t \in DOMAIN table.transaction_to_locks}

\* C16: release_locks(tid) applied to the lock table of any reachable state
\* removes every lock of tid from both indexes and keeps the locks of every
\* other transaction in both; applied again it changes nothing, and applied
\* for a transaction without locks it changes nothing.
C16_ReleaseAll ==
    \A t \in Tids :
        LET once  == release_locks(LockTable, t)
            twice == release_locks(once, t)
        IN  /\ \A lock \in TableLocks(once) : lock.tid # t
            /\ t \notin DOMAIN once.transaction_to_locks
            /\ \A pid \in DOMAIN page_to_locks :
                  {lock \in page_to_locks[pid] : lock.tid # t}
                      = {lock \in MapGetOrEmpty(once.page_to_locks, pid) : lock.tid # t}
            /\ \A u \in DOMAIN transaction_to_locks :
                  u # t => /\ u \in DOMAIN once.transaction_to_locks
                           /\ once.transaction_to_locks[u] = transaction_to_locks[u]
            /\ DOMAIN once.page_to_locks \subseteq DOMAIN page_to_locks
            /\ twice = once
            /\ LocksOf(t) = {} => once = LockTable

\* C16 witness: commit_transaction is about to call release_locks for a
\* transaction that holds two locks, one of them a shared lock on a page on
\* which another transaction holds a lock too.
C16_Witness ==
    \E t \in Tids : \E u \in Tids \ {t} :
        /\ pc[t] = "commit" /\ locked_pages[t] = {}
        /\ Cardinality(LocksOf(t)) >= 2
        /\ \E l1 \in LocksOf(t) : \E l2 \in LocksOf(u) : l1.pid = l2.pid

\* The tables transaction u has asked pages of: the table of its current or
\* last insert_tuple and the tables it has inserted into.
Touched(u) ==
    {table \in catalog : inserted[u][table] > 0}
    \cup (IF frame[u].kind = "none" THEN {} ELSE {frame[u].table_id})

\* C17: a pass of acquire_lock for a page no other transaction has a lock on
\* returns: it neither waits nor dies.  So a transaction is asleep in
\* acquire_lock, or was aborted by it, only on a table another transaction
\* has asked pages of: transactions that insert into different tables never
\* wait and are never aborted by the lock manager.
C17_UncontendedNeverBlocks ==
    /\ \A t \in Tids :
          (InAcquire(t) /\ OtherHolders(t) = {})
          => acquire_outcome(page_to_locks, transaction_to_locks, t, ReqPid(t),
                             frame[t].exclusive, pc[t] = "lock")
                 \in {"held", "upgrade", "grant"}
    /\ \A t \in Tids :
          pc[t] \in {"sleep", "die", "died"}
          => \E u \in Tids \ {t} : frame[t].table_id \in Touched(u)

\* C17 witness: two transactions have each done all their inserts into a table
\* of their own and are committing at the same time, still holding their locks.
C17_Witness ==
    \E t \in Tids : \E u \in Tids \ {t} :
        /\ pc[t] = "commit" /\ pc[u] = "commit"
        /\ Touched(t) = {1} /\ Touched(u) = {2}
        /\ inserted[t][1] = MaxOps /\ inserted[u][2] = MaxOps
        /\ LocksOf(t) # {} /\ LocksOf(u) # {}

\* Transaction t is in acquire_lock with a shared request for a page on which
\* every lock is shared.
SharedAmongShared(t) ==
    /\ InAcquire(t)
    /\ ~frame[t].exclusive
    /\ \A lock \in LocksOn(ReqPid(t)) : ~lock.exclusive

\* C18: the next pass of acquire_lock for a shared request on a page whose
\* locks are all shared returns with the lock held, whatever the ages; it
\* neither waits nor dies, and it changes no lock of another transaction.
C18_SharedIsGranted ==
    /\ [](\A t \in Tids :
             SharedAmongShared(t)
             => acquire_outcome(page_to_locks, transaction_to_locks, t, ReqPid(t),
                                FALSE, pc[t] = "lock") \in {"held", "grant"})
    /\ [][\A t \in Tids :
             (SharedAmongShared(t) /\ pc'[t] # pc[t])
             => /\ pc'[t] = "cache"
                /\ holds_lock(transaction_to_locks', t, ReqPid(t)) # None
                /\ {lock \in AllLocks' : lock.tid # t} = {lock \in AllLocks : lock.tid # t}]_vars

\* C18 witness: every transaction holds a shared lock on the same page, and the
\* oldest one has just been granted its lock.
C18_Witness ==
    \E pid \in DOMAIN page_to_locks :
        /\ page_to_locks[pid] = {Lock(t, pid, FALSE) : t \in Tids}
        /\ pc[0] = "cache"
        /\ \A t \in Tids \ {0} : pc[t] # "cache"

\* The transaction ids allocated so far.
Allocated == {t \in Tids : pc[t] # "none"}

\* C19: the counter starts at 0 and is the number of ids allocated; the ids
\* allocated are 0 .. COUNTER - 1, and each call of TransactionId::new returns
\* the number of allocations made before it, an id larger than every id
\* allocated before.
C19_IdsCountAllocations ==
    /\ [](COUNTER = Cardinality(Allocated) /\ Allocated = 0 .. (COUNTER - 1))
    /\ [][\A t \in Tids :
             (pc[t] = "none" /\ pc'[t] # "none")
             => /\ t = Cardinality(Allocated)
                /\ \A u \in Allocated : u < t
                /\ COUNTER' = COUNTER + 1]_vars

\* C19 witness: every id has been allocated while the threads of the earlier
\* transactions are still running.
C19_Witness ==
    /\ COUNTER = MaxTid
    /\ \A t \in Tids : pc[t] \notin {"none", "committed", "aborted", "died"}

\* C20: in every reachable state, the tuple in every occupied slot i of every
\* cached page (decoded by HeapPage::new or put there by HeapPage::add_tuple)
\* carries the RecordId (id of the page, i).
C20_SlotsCarryRecordId ==
    \A pid \in DOMAIN id_to_page :
        \A i \in 0 .. (num_slots - 1) :
            get_slot(id_to_page[pid].header, i)
            => id_to_page[pid].tuples[i + 1].rid = RecordId(pid, i)

\* Transaction t is inside HeapFile::delete_tuple.
InDelete(t) ==
    /\ frame[t].kind = "delete"
    /\ pc[t] \in {"lock", "sleep", "cache", "miss", "delete"}

\* The call of HeapFile::delete_tuple by t ends in this step, by returning or
\* by a panic other than the abort of WAIT-DIE.
DeleteEnds(t) == InDelete(t) /\ pc'[t] \in {"idle", "panicked"}

\* C21: when delete_tuple(tid, t) ends for a tuple t taken from a scan (read
\* from occupied slot i of page P), tid holds an Exclusive lock on P, slot i
\* of P is empty and its header bit is clear, P is marked dirtied by tid, and
\* the step changes no other slot of P and no other page.
C21_AsStated ==
    [][\A t \in Tids :
          (DeleteEnds(t) /\ ~frame[t].stamped)
          => LET P == frame[t].from_pid
                 i == frame[t].from_slot
             IN  /\ Lock(t, P, TRUE) \in MapGetOrEmpty(page_to_locks', P)
                 /\ ~get_slot(id_to_page'[P].header, i)
                 /\ id_to_page'[P].tuples[i + 1] = Tuple(<< >>)
                 /\ id_to_page'[P].dirtied_by = Some(t)
                 /\ \A j \in 0 .. (num_slots - 1) :
                        j # i => /\ id_to_page'[P].tuples[j + 1] = id_to_page[P].tuples[j + 1]
                                 /\ get_slot(id_to_page'[P].header, j)
                                    = get_slot(id_to_page[P].header, j)
                 /\ \A pid \in DOMAIN id_to_page :
                        pid # P => id_to_page'[pid] = id_to_page[pid]]_vars

\* Every slot of the page is occupied.
Full(page) == \A i \in 0 .. (num_slots - 1) : get_slot(page.header, i)

\* The slots of the page that hold tuple tup.
SlotsHolding(page, tup) ==
    {i \in 0 .. (num_slots - 1) : get_slot(page.header, i) /\ page.tuples[i + 1] = tup}

\* Pages 0 .. n-1 of the table are cached and full.
LowerPagesFull(table, n) ==
    \A m \in 0 .. (n - 1) :
        /\ HeapPageId(table, m) \in DOMAIN id_to_page
        /\ Full(id_to_page[HeapPageId(table, m)])

OnlyInsertedIntoEmpty(t, k) ==
    /\ pc[t] = "committed"
    /\ inserted[t][1] = k
    /\ k \in 1 .. num_slots
    /\ \A u \in Tids \ {t} : 1 \notin Touched(u)
    /\ HeapPageId(1, 0) \in DOMAIN first_image[t]
    /\ get_num_empty_slots(first_image[t][HeapPageId(1, 0)]) = num_slots

\* The tuple of the j-th insertion of transaction t (j = 1, 2, ...), with the
\* record id every tuple is given.
NthTuple(t, j) == Tuple(<< IntField(t), StringField(<< j - 1 >>, 1) >>)

\* C23: after a transaction has inserted k tuples (k at most the slots of a
\* page) into an empty table and committed, a scan by a later transaction
\* returns exactly these k tuples in the order of insertion; they are in
\* slots 0 .. k-1 of page 0, whose header has bits 0 .. k-1 set and every
\* other bit clear, in the cache and in the file.
C23_ScanInInsertionOrder ==
    \A t \in Tids : \A k \in 1 .. num_slots :
        OnlyInsertedIntoEmpty(t, k)
        => /\ scan(1, 0) = [j \in 1 .. k |-> NthTuple(t, j)]
           /\ num_pages(file[1]) = 1
           /\ \A page \in {id_to_page[HeapPageId(1, 0)],
                            read_page(file[1], HeapPageId(1, 0))} :
                  /\ \A i \in 0 .. (header_size * 8 - 1) :
                         get_slot(page.header, i) <=> i < k
                  /\ \A i \in 0 .. (k - 1) : page.tuples[i + 1] = NthTuple(t, i + 1)

\* C23 witness: a transaction has filled page 0 of the empty table 1 and
\* committed; no other transaction has asked for a page of the table.
C23_Witness == \E t \in Tids : OnlyInsertedIntoEmpty(t, num_slots)

\* Slot i and header bit i are the same in pages a and b.
SameSlot(a, b, i) ==
    /\ get_slot(a.header, i) = get_slot(b.header, i)
    /\ i < num_slots => a.tuples[i + 1] = b.tuples[i + 1]

\* Pages a and b differ at most in slot i and header bit i.
SameButSlot(a, b, i) ==
    /\ \A j \in 0 .. (header_size * 8 - 1) : j # i => SameSlot(a, b, j)
    /\ a.pid = b.pid
    /\ a.old_data = b.old_data
    /\ a.dirtied_by = b.dirtied_by

\* The slots of the page whose header bit is clear.
FreeSlots(page) == {i \in 0 .. (num_slots - 1) : ~get_slot(page.header, i)}

\* C24: HeapPage::add_tuple puts the tuple into the free slot with the lowest
\* index and sets the header bit of that slot, leaving every other slot and
\* bit as it was; when no slot is free it returns Err and leaves the page as
\* it was.  After any sequence of add_tuple and delete_tuple,
\* get_num_empty_slots plus the number of tuples the page iterator yields is
\* num_slots.
C24_PageInsert ==
    /\ call.op = "add_tuple"
       => IF FreeSlots(call.before) # {}
          THEN \E i \in FreeSlots(call.before) :
                  /\ \A j \in FreeSlots(call.before) : i <= j
                  /\ call.ok
                  /\ call.page.tuples[i + 1] = call.tuple
                  /\ get_slot(call.page.header, i)
                  /\ SameButSlot(call.page, call.before, i)
          ELSE ~call.ok /\ call.page = call.before
    /\ call.op \in {"new", "add_tuple", "delete_tuple"}
       => get_num_empty_slots(call.page) + Len(page_iter(call.page, 0)) = num_slots

\* C24 witness: add_tuple on a page without a free slot has returned Err;
\* the page holds two different tuples.
C24_Witness ==
    /\ call.op = "add_tuple"
    /\ ~call.ok
    /\ call.page.tuples[1] # call.page.tuples[2]

\* The record id of the tuple names page `page` and an occupied slot of it.
OnPage(page, tup) ==
    /\ tup.rid.pid = page.pid
    /\ tup.rid.tuple_no \in 0 .. (num_slots - 1) \ FreeSlots(page)

\* C25: HeapPage::delete_tuple returns Err and leaves the page as it was when
\* the record id of the tuple names another page or a slot that is not
\* occupied; otherwise it empties that slot and clears its header bit and
\* changes nothing else.
C25_PageRemove ==
    call.op = "delete_tuple"
    => IF OnPage(call.before, call.tuple)
       THEN /\ call.ok
            /\ ~get_slot(call.page.header, call.tuple.rid.tuple_no)
            /\ call.page.tuples[call.tuple.rid.tuple_no + 1] = Tuple(<< >>)
            /\ SameButSlot(call.page, call.before, call.tuple.rid.tuple_no)
       ELSE ~call.ok /\ call.page = call.before

\* C25 witness: delete_tuple has emptied slot 0 of a full page.
C25_Witness ==
    /\ call.op = "delete_tuple"
    /\ call.ok
    /\ FreeSlots(call.before) = {}
    /\ call.tuple.rid.tuple_no = 0

\* C26: read_page(n) on a file of fewer than n+1 pages makes the file n+1
\* pages long, the new bytes are zeros, and the page returned has no occupied
\* slot; read_page changes no byte the file had; after every read_page and
\* write_page the length of the file is a multiple of PAGE_SIZE.
C26_ReadPageExtends ==
    /\ call.op = "read_page"
       => /\ \A i \in 1 .. Len(call.before) : file[1][i] = call.before[i]
          /\ IF num_pages(call.before) < call.n + 1
             THEN /\ Len(file[1]) = (call.n + 1) * PAGE_SIZE
                  /\ \A i \in (Len(call.before) + 1) .. Len(file[1]) : file[1][i] = 0
                  /\ FreeSlots(call.page) = 0 .. (num_slots - 1)
                  /\ page_iter(call.page, 0) = << >>
             ELSE file[1] = call.before
          /\ call.page.pid = HeapPageId(1, call.n)
    /\ call.op \in {"read_page", "write_page"} => Len(file[1]) % PAGE_SIZE = 0

\* C26 witness: read_page(3) on the empty file.
C26_Witness ==
    /\ call.op = "read_page"
    /\ call.before = << >>
    /\ call.n = 3
    /\ Len(file[1]) = 4 * PAGE_SIZE

\* The step in which the page iterator of t yields a page: get_page returns
\* to HeapFileIterator::next or HeapFileIteratorMut::next.
IterYields(t) ==
    /\ frame[t].kind = "iter"
    /\ pc[t] \in {"cache", "miss"}
    /\ pc'[t] = "iter"

\* t holds a lock on pid that is Exclusive if exclusive is asked for.
HoldsAtLeast(t, pid, exclusive) ==
    \E lock \in LocksOn(pid) : lock.tid = t /\ (exclusive => lock.exclusive)

\* C27: the page iterator of a file starts at page 0; each call of next
\* compares its page number with num_pages() of that moment and either asks
\* for that page or ends; a page is yielded when the transaction holds a lock
\* of the iterator's mode on it, and the page number then goes up by one;
\* when the iterator ends, the transaction holds a lock of at least that mode
\* on every page it yielded.
C27_PageIterator ==
    [][\A t \in Tids :
          /\ (pc[t] = "idle" /\ pc'[t] = "iter") => frame'[t].page_no = 0
          /\ (pc[t] = "iter" /\ pc'[t] # "iter")
             => IF frame[t].page_no < num_pages(file[frame[t].table_id])
                THEN pc'[t] = "lock" /\ frame'[t] = frame[t]
                ELSE /\ pc'[t] = "idle"
                     /\ \A n \in 0 .. (frame[t].page_no - 1) :
                            HoldsAtLeast(t, HeapPageId(frame[t].table_id, n),
                                         frame[t].exclusive)
          /\ IterYields(t)
             => /\ HoldsAtLeast(t, ReqPid(t), frame[t].exclusive)
                /\ ReqPid(t) \in DOMAIN id_to_page'
                /\ frame'[t].page_no = frame[t].page_no + 1
          /\ (frame[t].kind = "iter" /\ pc[t] # "idle" /\ ~IterYields(t))
             => frame'[t] = frame[t]]_vars

\* C27 witness: an Exclusive page iterator has yielded pages 0 and 1 of a
\* table and has ended.
C27_Witness ==
    \E t \in Tids :
        /\ frame[t].kind = "iter"
        /\ frame[t].exclusive
        /\ frame[t].page_no = 2
        /\ pc[t] = "idle"
        /\ \A n \in 0 .. 1 : HoldsAtLeast(t, HeapPageId(frame[t].table_id, n), TRUE)

\* C28: for every page P, HeapPage::new(P.pid, P.get_page_data(), td) is P
\* again, and get_page_data returns PAGE_SIZE bytes.  Read in favour of the
\* statement: the decoded page need only have the id and the header of P and,
\* in every occupied slot, a tuple with the fields of the tuple of P (the
\* derived == of HeapPage also compares record ids, the before-image and the
\* dirty mark).
C28_AsStated ==
    call.op \in {"new", "add_tuple", "delete_tuple"}
    => LET P == call.page
           D == HeapPageNew(P.pid, get_page_data(P))
       IN  /\ Len(get_page_data(P)) = PAGE_SIZE
           /\ D.pid = P.pid
           /\ D.header = P.header
           /\ \A i \in 0 .. (num_slots - 1) :
                  get_slot(P.header, i) => D.tuples[i + 1].fields = P.tuples[i + 1].fields

\* C29: for every tuple t whose fields have the types of the descriptor td,
\* Tuple::deserialize(t.serialize(), td) returns a tuple with the fields of t
\* (the derived == of Tuple also compares the record id, which is the same
\* for all these tuples).
C29_AsStated ==
    call.op = "deserialize"
    => /\ call.ok
       /\ call.tuple.fields = call.from.fields

\* The heap files a reader can get from the name index and from the id index.
FilesByName == {tables[name] : name \in DOMAIN tables}
FilesById == {table_ids[id] : id \in DOMAIN table_ids}

\* C30: whenever a reader can read both indexes of the catalog (no add_table
\* call holds a write latch), a heap file is in the id index if and only if
\* it is in the name index, also after add_table calls that use a name again.
C30_AsStated == (~TablesLatched /\ ~TableIdsLatched) => FilesById = FilesByName


\* The locks of transaction t on page pid in the page index and in the
\* transaction index.
PageIndexLocksOf(t, pid) == {lock \in LocksOn(pid) : lock.tid = t}
TransactionIndexLocksOf(t, pid) ==
    {lock \in MapGetOrEmpty(transaction_to_locks, t) : lock.pid = pid}

\* Transaction t is inside acquire_lock(t, pid, exclusive = TRUE) and the only
\* lock on pid is its own shared lock.
SoleSharedHolderAsksExclusive(t) ==
    /\ InAcquire(t)
    /\ frame[t].exclusive
    /\ LocksOn(ReqPid(t)) = {Lock(t, ReqPid(t), FALSE)}

\* The step in which acquire_lock of t returns.
AcquireReturns(t) == InAcquire(t) /\ pc'[t] = "cache"

\* C31: when tid is the only holder of a page and holds it shared, a pass of
\* acquire_lock(tid, pid, exclusive) neither waits nor dies but returns, and
\* afterwards each index has exactly one lock of tid on pid, the exclusive one,
\* and the locks of every other transaction are as before.  After every
\* acquire_lock(tid, pid, exclusive) that returns, holds_lock(tid, pid) is Write.
C31_UpgradeInPlace ==
    [][\A t \in Tids :
          /\ SoleSharedHolderAsksExclusive(t) =>
                /\ acquire_outcome(page_to_locks, transaction_to_locks, t, ReqPid(t),
                                   TRUE, pc[t] = "lock") = "upgrade"
                /\ pc'[t] # pc[t] =>
                      /\ pc'[t] = "cache"
                      /\ PageIndexLocksOf(t, ReqPid(t))' = {Lock(t, ReqPid(t), TRUE)}
                      /\ TransactionIndexLocksOf(t, ReqPid(t))' = {Lock(t, ReqPid(t), TRUE)}
                      /\ \A u \in Tids \ {t} : LocksOf(u)' = LocksOf(u)
                      /\ \A pid \in DOMAIN page_to_locks \ {ReqPid(t)} :
                            LocksOn(pid)' = LocksOn(pid)
          /\ (AcquireReturns(t) /\ frame[t].exclusive) =>
                holds_lock(transaction_to_locks, t, ReqPid(t))' = Some("Write")]_vars

\* C31 witness: the first insert of a transaction has probed a page under its
\* shared lock and acquire_lock has returned with the lock upgraded, while
\* another transaction holds a lock on another page.
C31_Witness ==
    \E t \in Tids : \E u \in Tids \ {t} :
        /\ pc[t] = "cache"
        /\ ops[t] = 0
        /\ frame[t].kind = "insert"
        /\ frame[t].exclusive
        /\ LocksOn(ReqPid(t)) = {Lock(t, ReqPid(t), TRUE)}
        /\ \E lock \in LocksOf(u) : lock.pid # ReqPid(t)


\* Transaction t is inside acquire_lock for a page it already has a lock on
\* that is at least as strong as the one it asks for.
HoldsStrongEnough(t) ==
    /\ InAcquire(t)
    /\ \E lock \in LocksOf(t) :
          lock.pid = ReqPid(t) /\ (lock.exclusive \/ ~frame[t].exclusive)

\* C32: acquire_lock(tid, pid, exclusive) by a transaction that already has a
\* lock on pid at least as strong takes the early return on its first pass and
\* leaves both indexes as they are: the exclusive lock of a shared request is
\* not downgraded and a repeated request adds no lock.
C32_EarlyReturn ==
    [][\A t \in Tids :
          HoldsStrongEnough(t) =>
              /\ pc[t] = "lock"
              /\ acquire_outcome(page_to_locks, transaction_to_locks, t, ReqPid(t),
                                 frame[t].exclusive, TRUE) = "held"
              /\ pc'[t] # pc[t] =>
                    /\ pc'[t] = "cache"
                    /\ page_to_locks' = page_to_locks
                    /\ transaction_to_locks' = transaction_to_locks]_vars

\* C32 witness: a transaction that inserted twice, asking for a shared lock on
\* the page it held exclusively from its first insert, has committed; acquire_lock
\* has returned to another transaction that asked again for the shared lock on
\* page 0 it has held since its first insert, which went to another page.
C32_Witness ==
    \E t \in Tids : \E u \in Tids \ {t} :
        /\ pc[t] = "committed" /\ ops[t] = 2
        /\ DOMAIN first_image[t] = {HeapPageId(1, 0), HeapPageId(1, 1)}
        /\ pc[u] = "cache" /\ ops[u] = 1
        /\ ~frame[u].exclusive /\ frame[u].page_no = 0
        /\ Lock(u, ReqPid(u), FALSE) \in LocksOf(u)
        /\ \E lock \in LocksOf(u) : lock.exclusive /\ lock.pid # ReqPid(u)


\* The step in which acquire_lock of t decides to abort t.
TakesDieBranch(t) == InAcquire(t) /\ pc'[t] = "die"

\* Transaction t has a lock or is inside acquire_lock.
HoldsOrRequests(t) == LocksOf(t) # {} \/ InAcquire(t)

\* C33: acquire_lock aborts a transaction only when, in the state it decides
\* in, a transaction with a strictly smaller id has a lock on the requested
\* page; so the transaction with the smallest id among those that hold or
\* request locks is not aborted by acquire_lock.
C33_DiesOnlyForOlder ==
    [][\A t \in Tids :
          TakesDieBranch(t) =>
              /\ \E lock \in LocksOn(ReqPid(t)) : lock.tid < t
              /\ \E u \in Tids : HoldsOrRequests(u) /\ u < t]_vars

\* C33 witness: a transaction has been sent to abort by acquire_lock while the
\* oldest transaction, which holds a lock on the page, is asleep in acquire_lock
\* for a page a younger transaction holds.
C33_Witness ==
    \E t \in Tids : \E u \in Tids :
        /\ pc[t] = "die"
        /\ u < t
        /\ \A v \in Tids : HoldsOrRequests(v) => u <= v
        /\ \E lock \in LocksOn(ReqPid(t)) : lock.tid = u
        /\ pc[u] = "sleep"


\* Transaction t is in HeapFile::add_tuple between the probe that saw a free
\* slot on the page and the HeapPage::add_tuple on it.
BetweenProbeAndWrite(t) ==
    /\ frame[t].kind = "insert"
    /\ frame[t].exclusive
    /\ pc[t] \in {"lock", "sleep", "cache", "write"}

\* C34: in HeapFile::add_tuple the page keeps the free slot the shared probe
\* saw until HeapPage::add_tuple runs under the exclusive lock: no step of
\* another transaction changes the page in between, HeapPage::add_tuple finds a
\* free slot, and no insert ends with the "No empty slots" error.
C34_NoPageFull ==
    /\ [](\A t \in Tids :
             /\ pc[t] # "panicked"
             /\ BetweenProbeAndWrite(t) =>
                   /\ ReqPid(t) \in DOMAIN id_to_page
                   /\ get_num_empty_slots(id_to_page[ReqPid(t)]) > 0
                   /\ FirstFreeSlot(id_to_page[ReqPid(t)]) < num_slots)
    /\ [][\A t \in Tids :
             (BetweenProbeAndWrite(t) /\ pc'[t] = pc[t]) =>
                 id_to_page'[ReqPid(t)] = id_to_page[ReqPid(t)]]_vars

\* C34 witness: a transaction is about to store its tuple in the last free
\* slot of a page, after it slept in acquire_lock for the exclusive lock;
\* another transaction that saw the same free slot was aborted by acquire_lock.
C34_Witness ==
    \E t \in Tids : \E u \in Tids \ {t} :
        /\ pc[t] = "write"
        /\ get_num_empty_slots(id_to_page[ReqPid(t)]) = 1
        /\ pc[u] = "died"
        /\ frame[u].kind = "insert" /\ frame[u].exclusive
        /\ ReqPid(u) = ReqPid(t)


\* The step in which get_page of t inserts the page it read into id_to_page.
InstallsPage(t) == pc[t] = "miss" /\ pc'[t] \notin {"miss", "panicked"}

\* C36, as stated: get_page inserts a page into the cache only under a page id
\* that has no entry, so an installed entry is never replaced and every
\* get_page for the page id returns the one page object.
C36_AsStated ==
    [][\A t \in Tids : InstallsPage(t) => ReqPid(t) \notin DOMAIN id_to_page]_vars


\* Transaction t has the exclusive lock on page pid, in both indexes.
HoldsExclusive(t, pid) ==
    /\ Lock(t, pid, TRUE) \in LocksOn(pid)
    /\ Lock(t, pid, TRUE) \in MapGetOrEmpty(transaction_to_locks, t)

\* C37: in every reachable state each cached page that is dirty is dirtied by
\* a transaction that has the exclusive lock on it; a page with shared locks
\* only, or with no lock, is not dirty.
C37_DirtyPagesAreLocked ==
    \A pid \in DOMAIN id_to_page :
        is_dirty(id_to_page[pid]) =>
            \E t \in Tids :
                /\ id_to_page[pid].dirtied_by = Some(t)
                /\ HoldsExclusive(t, pid)

\* C37 witness: a page is dirty from a delete_tuple of a transaction that has
\* returned, and another transaction is asleep in acquire_lock for that page.
C37_Witness ==
    \E t \in Tids : \E u \in Tids \ {t} : \E pid \in DOMAIN id_to_page :
        /\ pc[t] = "idle"
        /\ frame[t].kind = "delete"
        /\ ReqPid(t) = pid
        /\ id_to_page[pid].dirtied_by = Some(t)
        /\ pc[u] = "sleep"
        /\ ReqPid(u) = pid


\* Transaction t has a lock on every page of the table numbered below n.
HoldsLowerPages(t, table, n) ==
    \A m \in 0 .. (n - 1) :
        holds_lock(transaction_to_locks, t, HeapPageId(table, m)) # None

\* commit_transaction or abort_transaction of t has been called.
Ending(t) == pc[t] \in {"commit", "abort", "die", "committed", "aborted", "died"}

\* C38: when HeapFile::add_tuple of tid returns after storing the tuple in page
\* p, tid has the exclusive lock on p and a lock on every page of the table
\* below p, and p is dirtied by tid; tid has these locks, and p stays dirtied
\* by tid, in every state until commit_transaction or abort_transaction of tid
\* is called, and the locks until it releases them.
C38_InsertHoldsLocks ==
    /\ [][\A t \in Tids :
             (pc[t] = "write" /\ pc'[t] = "idle") =>
                 /\ HoldsExclusive(t, ReqPid(t))'
                 /\ HoldsLowerPages(t, frame[t].table_id, frame[t].page_no)'
                 /\ id_to_page'[ReqPid(t)].dirtied_by = Some(t)]_vars
    /\ [](\A t \in Tids : \A pid \in DOMAIN first_image[t] :
             /\ ~Finished(t) =>
                   /\ HoldsExclusive(t, pid)
                   /\ HoldsLowerPages(t, pid.table_id, pid.page_number)
             /\ ~Ending(t) => id_to_page[pid].dirtied_by = Some(t))

\* C38 witness: add_tuple has returned to a transaction that found page 0 full
\* and stored its tuple in page 1: it has the shared lock on page 0 and the
\* exclusive lock on page 1, and another transaction is asleep in acquire_lock
\* for page 1.
C38_Witness ==
    \E t \in Tids : \E u \in Tids \ {t} :
        /\ pc[t] = "idle"
        /\ frame[t].kind = "insert"
        /\ frame[t].page_no = 1
        /\ Lock(t, HeapPageId(frame[t].table_id, 0), FALSE) \in LocksOf(t)
        /\ HoldsExclusive(t, ReqPid(t))
        /\ pc[u] = "sleep"
        /\ ReqPid(u) = ReqPid(t)


\* get_page of t has failed at the catalog lookup: the table of the page it
\* asked for is not registered.
FailedNoTable(t) == pc[t] = "panicked" /\ frame[t].table_id \notin catalog

\* C39, as stated: a get_page(tid, pid, perm) that fails because the table of
\* pid is not in the catalog leaves the lock table and the page cache as they
\* were before the call; tid, which had no lock on pid before its call, has
\* none after it, in either index.
C39_AsStated ==
    \A t \in Tids :
        FailedNoTable(t) =>
            /\ holds_lock(transaction_to_locks, t, ReqPid(t)) = None
            /\ PageIndexLocksOf(t, ReqPid(t)) = {}
            /\ ReqPid(t) \notin DOMAIN id_to_page


\* C40, as stated: every HeapFile::add_tuple call ends, whatever the tuple
\* descriptor of the table is: its scan stops at the latest on the first page
\* the call appends to the file, so one call makes the file longer by at most
\* one page.
C40_AsStated ==
    \A t \in Tids : frame[t].kind = "insert" => grown[t] <= 1


\* Thread t is about to call acquire_lock or is inside it.
InsideAcquire(t) == pc[t] \in {"lock", "loop", "loop2", "latched", "sleep"}

\* Thread t has a guard of the RwLock of a page.
HoldsPageLatch(t) == \E g \in latches[t] : g.latch.of = "page"

\* The guards the next step of thread t asks for.
Requests(t) ==
    IF pc[t] = "lock" THEN {Guard(transaction_to_locks_latch, FALSE)}
    ELSE IF pc[t] \in {"loop", "sleep"} THEN {Guard(page_to_locks_latch, TRUE)}
    ELSE IF pc[t] = "loop2" THEN {Guard(transaction_to_locks_latch, TRUE)}
    ELSE IF pc[t] = "probe" THEN {Guard(page_latch(ReqPid(t)), FALSE)}
    ELSE IF pc[t] = "write" THEN {Guard(page_latch(ReqPid(t)), TRUE)}
    ELSE IF pc[t] \in {"commit", "abort", "die"}
    THEN (IF locked_pages[t] = {}
          THEN {Guard(page_to_locks_latch, TRUE), Guard(transaction_to_locks_latch, TRUE)}
          ELSE {Guard(page_latch(pid), TRUE) : pid \in locked_pages[t] \cap DOMAIN id_to_page})
    ELSE {}

\* Thread t asks for a guard that a guard thread u has does not allow.
WaitsForLatch(t, u) ==
    \E g \in Requests(t) : \E h \in latches[u] :
        h.latch = g.latch /\ (h.write \/ g.write)

\* C35: no thread has a guard of the lock-table latches or of a page latch
\* while it sleeps in acquire_lock or when it calls acquire_lock, and none has
\* a page guard anywhere inside acquire_lock (add_tuple gives up the read
\* guard of the page before it asks for the exclusive lock); no thread asks for
\* a guard that one of its own guards excludes, and no threads wait for each
\* other's guards in a cycle.
C35_NoLatchHeldAcrossAcquire ==
    \A t \in Tids :
        /\ pc[t] \in {"sleep", "lock"} => latches[t] = {}
        /\ InsideAcquire(t) => ~HoldsPageLatch(t)
        /\ ~WaitsForLatch(t, t)
        /\ \A u \in Tids \ {t} :
              /\ ~(WaitsForLatch(t, u) /\ WaitsForLatch(u, t))
              /\ \A v \in Tids \ {t, u} :
                    ~(WaitsForLatch(t, u) /\ WaitsForLatch(u, v) /\ WaitsForLatch(v, t))

\* C35 witness: a transaction that gave up the read guard of the page and
\* asked for the exclusive lock sleeps in acquire_lock, while a second thread
\* has both write guards of the lock table and a third the read guard of a page.
C35_Witness ==
    \E t \in Tids : \E u \in Tids \ {t} : \E v \in Tids \ {t, u} :
        /\ pc[t] = "sleep"
        /\ frame[t].kind = "insert" /\ frame[t].exclusive
        /\ latches[u] = {Guard(page_to_locks_latch, TRUE),
                         Guard(transaction_to_locks_latch, TRUE)}
        /\ latches[v] = {Guard(page_latch(ReqPid(v)), FALSE)}

====
